---- MODULE Spec2Model ----
(***************************************************************************)
(* HalalService (src/src/services/halalService.ts): the one-time load of   *)
(* the halal register with retries, and the name/postal matcher.           *)
(*                                                                         *)
(* Strings are sequences of one-character strings.  JavaScript runs each   *)
(* piece of an async function between two awaits to completion, so every   *)
(* action below is one such piece: from the resumption of an await to the  *)
(* next await (or to the return of the public operation).                  *)
(***************************************************************************)
EXTENDS Integers, Sequences, FiniteSets, TLC

\* JavaScript evaluates an expression once and binds its value: Let(v, F) is
\* F applied to the value of v.
Let(v, F(_)) == CHOOSE r \in {F(x) : x \in {v}} : TRUE

(***************************************************************************)
(* Characters                                                              *)
(***************************************************************************)
LowerSeq == <<"a","b","c","d","e","f","g","h","i","j","k","l","m",
              "n","o","p","q","r","s","t","u","v","w","x","y","z">>
UpperSeq == <<"A","B","C","D","E","F","G","H","I","J","K","L","M",
              "N","O","P","Q","R","S","T","U","V","W","X","Y","Z">>
Lower == {LowerSeq[i] : i \in 1..26}
Upper == {UpperSeq[i] : i \in 1..26}
Digit == {"0","1","2","3","4","5","6","7","8","9"}

\* \w of the regular expressions: [A-Za-z0-9_]
IsWordChar(ch) == ch \in Lower \cup Upper \cup Digit \cup {"_"}
\* \s of the regular expressions (the names of the model hold no other blank)
IsSpace(ch) == ch = " "

\* String.prototype.toLowerCase, character by character
LowerChar(ch) ==
    IF ch \in Upper THEN LowerSeq[CHOOSE i \in 1..26 : UpperSeq[i] = ch] ELSE ch
toLowerCase(s) == [i \in 1..Len(s) |-> LowerChar(s[i])]

\* \b at position i (between s[i-1] and s[i]) of s
WordBoundary(s, i) ==
    LET before == i > 1 /\ IsWordChar(s[i-1])
        after  == i <= Len(s) /\ IsWordChar(s[i])
    IN  before # after

\* w occurs in s at position i
StartsAt(s, i, w) ==
    /\ i + Len(w) - 1 <= Len(s)
    /\ \A k \in 1..Len(w) : s[i + k - 1] = w[k]

\* first position >= i of s that does not satisfy the class (Len(s)+1 if none)
RECURSIVE SkipSpaces(_, _)
SkipSpaces(s, i) == IF i <= Len(s) /\ IsSpace(s[i]) THEN SkipSpaces(s, i + 1) ELSE i
RECURSIVE SkipDigits(_, _)
SkipDigits(s, i) == IF i <= Len(s) /\ s[i] \in Digit THEN SkipDigits(s, i + 1) ELSE i

(***************************************************************************)
(* cleanName, one replace per operator                                     *)
(***************************************************************************)
CorporateWords == << <<"p","t","e">>, <<"l","t","d">>,
                     <<"p","r","i","v","a","t","e">>,
                     <<"l","i","m","i","t","e","d">>,
                     <<"s","d","n">>, <<"b","h","d">> >>

\* length of the match of /\b(pte|ltd|private|limited|sdn|bhd)\b/ at i, 0 if none
CorporateMatchLen(s, i) ==
    LET ok(k) == /\ StartsAt(s, i, CorporateWords[k])
                 /\ WordBoundary(s, i)
                 /\ WordBoundary(s, i + Len(CorporateWords[k]))
        hits == {k \in 1..Len(CorporateWords) : ok(k)}
    IN  IF hits = {} THEN 0
        ELSE Len(CorporateWords[CHOOSE k \in hits : \A j \in hits : k <= j])

\* the replace copies s up to the next match and goes on behind it
RECURSIVE RemoveCorporate(_, _)
RemoveCorporate(s, i) ==
    Let({j \in i..Len(s) : CorporateMatchLen(s, j) > 0}, LAMBDA starts :
        IF starts = {} THEN SubSeq(s, i, Len(s))
        ELSE Let(CHOOSE j \in starts : \A k \in starts : j <= k, LAMBDA j :
                 SubSeq(s, i, j - 1) \o RemoveCorporate(s, j + CorporateMatchLen(s, j))))

StallWord == <<"s","t","a","l","l">>
UnitWord  == <<"u","n","i","t">>

\* end (exclusive) of the match of /\s*\d+/ from p, 0 if none
BlanksThenDigits(s, p) ==
    Let(SkipSpaces(s, p), LAMBDA q :
        Let(SkipDigits(s, q), LAMBDA e : IF e > q THEN e ELSE 0))

\* end (exclusive) of the match of /\b(stall|#|unit|\d+[a-z]?)\s*\d+/ at i,
\* 0 if none; alternatives in the order of the expression, quantifiers greedy
\* with backtracking
\* the alternative \d+[a-z]? with the digits ending before e
StallDigitsEnd(s, i, e) ==
    IF e = i THEN 0
    ELSE Let(IF e <= Len(s) /\ s[e] \in Lower THEN BlanksThenDigits(s, e + 1) ELSE 0,
         LAMBDA withLetter :
             IF withLetter > 0 THEN withLetter
             ELSE Let(BlanksThenDigits(s, e), LAMBDA plain :
                      IF plain > 0 THEN plain
                      ELSE IF e - i >= 2 THEN e
                      ELSE 0))

\* a keyword alternative of length n
StallKeywordEnd(s, i, w) ==
    IF StartsAt(s, i, w) THEN BlanksThenDigits(s, i + Len(w)) ELSE 0

StallMatchEnd(s, i) ==
    IF ~WordBoundary(s, i) THEN 0
    ELSE Let(StallKeywordEnd(s, i, StallWord), LAMBDA a :
         IF a > 0 THEN a
         ELSE Let(StallKeywordEnd(s, i, <<"#">>), LAMBDA b :
         IF b > 0 THEN b
         ELSE Let(StallKeywordEnd(s, i, UnitWord), LAMBDA u :
         IF u > 0 THEN u
         ELSE Let(SkipDigits(s, i), LAMBDA e : StallDigitsEnd(s, i, e)))))

RECURSIVE RemoveStall(_, _)
RemoveStall(s, i) ==
    Let({j \in i..Len(s) : StallMatchEnd(s, j) > 0}, LAMBDA starts :
        IF starts = {} THEN SubSeq(s, i, Len(s))
        ELSE Let(CHOOSE j \in starts : \A k \in starts : j <= k, LAMBDA j :
                 SubSeq(s, i, j - 1) \o RemoveStall(s, StallMatchEnd(s, j))))

\* line 225 replacing by the empty string
PunctToSpace_Delete(s) == SelectSeq(s, LAMBDA ch : IsWordChar(ch) \/ IsSpace(ch))
\* .replace(/[^\w\s]/g, ' ')
PunctToSpace(s) ==
    [i \in 1..Len(s) |-> IF IsWordChar(s[i]) \/ IsSpace(s[i]) THEN s[i] ELSE " "]

\* .replace(/\s+/g, ' ')
RECURSIVE CollapseSpaces(_, _)
CollapseSpaces(s, i) ==
    Let({j \in i..Len(s) : IsSpace(s[j])}, LAMBDA blanks :
        IF blanks = {} THEN SubSeq(s, i, Len(s))
        ELSE Let(CHOOSE j \in blanks : \A k \in blanks : j <= k, LAMBDA j :
                 SubSeq(s, i, j - 1) \o <<" ">> \o CollapseSpaces(s, SkipSpaces(s, j))))

\* .trim()
trim(s) ==
    LET keep == {i \in 1..Len(s) : ~IsSpace(s[i])}
    IN  IF keep = {} THEN <<>>
        ELSE LET lo == CHOOSE i \in keep : \A j \in keep : i <= j
                 hi == CHOOSE i \in keep : \A j \in keep : i >= j
             IN  SubSeq(s, lo, hi)

cleanName(name) ==
    Let(toLowerCase(name),     LAMBDA lowered :
    Let(RemoveCorporate(lowered, 1), LAMBDA noCorporate :
    Let(RemoveStall(noCorporate, 1), LAMBDA noStall :
    Let(PunctToSpace(noStall),       LAMBDA noPunct :
    Let(CollapseSpaces(noPunct, 1),  LAMBDA collapsed : trim(collapsed))))))

(***************************************************************************)
(* Word similarity                                                         *)
(***************************************************************************)
Min2(a, b) == IF a < b THEN a ELSE b
Max2(a, b) == IF a > b THEN a ELSE b

\* One row of the matrix of levenshteinDistance: row j (for str2[j]) from
\* row j-1, filled from i = 1 upwards as the inner loop does.
RECURSIVE LevRow(_, _, _, _, _)
LevRow(str1, ch, prev, row, i) ==
    IF i > Len(str1) THEN row
    ELSE LET indicator == IF str1[i] = ch THEN 0 ELSE 1
             cell == Min2(Min2(row[i] + 1, prev[i + 1] + 1), prev[i] + indicator)
         IN  Let(Append(row, cell), LAMBDA r : LevRow(str1, ch, prev, r, i + 1))

\* rows are sequences indexed from 1: row[i + 1] is matrix[j][i]
RECURSIVE LevRows(_, _, _, _)
LevRows(str1, str2, prev, j) ==
    IF j > Len(str2) THEN prev
    ELSE Let(LevRow(str1, str2[j], prev, <<j>>, 1),
             LAMBDA row : LevRows(str1, str2, row, j + 1))

levenshteinDistance(str1, str2) ==
    Let([i \in 1..(Len(str1) + 1) |-> i - 1],
        LAMBDA row0 : LevRows(str1, str2, row0, 1)[Len(str1) + 1])

\* commonVariations: the full word and its abbreviations
VariationFull == << <<"r","e","s","t","a","u","r","a","n","t">>,
                    <<"k","i","t","c","h","e","n">>,
                    <<"f","o","o","d">>,
                    <<"h","o","u","s","e">>,
                    <<"c","o","r","n","e","r">>,
                    <<"c","e","n","t","r","e">>,
                    <<"i","n","t","e","r","n","a","t","i","o","n","a","l">>,
                    <<"c","o","m","p","a","n","y">>,
                    <<"p","r","i","v","a","t","e">>,
                    <<"l","i","m","i","t","e","d">> >>
VariationAbbrevs == << { <<"r","e","s","t">>, <<"r","e","s","t","o">> },
                       { <<"k","i","t","c","h","n">>, <<"k","i","t","c","h">> },
                       { <<"f","d">> },
                       { <<"h","s","e">> },
                       { <<"c","n","r">> },
                       { <<"c","e","n","t","e","r">>, <<"c","t","r">> },
                       { <<"i","n","t","l">> },
                       { <<"c","o">> },
                       { <<"p","t","e">>, <<"p","v","t">> },
                       { <<"l","t","d">> } >>

IsVariation(word1, word2) ==
    \E k \in 1..Len(VariationFull) :
        \/ word1 = VariationFull[k] /\ word2 \in VariationAbbrevs[k]
        \/ word2 = VariationFull[k] /\ word1 \in VariationAbbrevs[k]
        \/ word1 \in VariationAbbrevs[k] /\ word2 \in VariationAbbrevs[k]

\* line 197 with a threshold of 0.75
EditSimilar_Loose(word1, word2) ==
    LET longer  == IF Len(word1) > Len(word2) THEN word1 ELSE word2
        shorter == IF Len(word1) > Len(word2) THEN word2 ELSE word1
    IN  /\ Len(longer) # 0
        /\ Let(levenshteinDistance(longer, shorter), LAMBDA editDistance :
               4 * (Len(longer) - editDistance) >= 3 * Len(longer))
\* (longer.length - editDistance) / longer.length >= 0.8, in integers
EditSimilar(word1, word2) ==
    LET longer  == IF Len(word1) > Len(word2) THEN word1 ELSE word2
        shorter == IF Len(word1) > Len(word2) THEN word2 ELSE word1
    IN  /\ Len(longer) # 0
        /\ Let(levenshteinDistance(longer, shorter), LAMBDA editDistance :
               10 * (Len(longer) - editDistance) >= 8 * Len(longer))

isWordSimilar(word1, word2) ==
    IsVariation(word1, word2) \/ EditSimilar(word1, word2)

\* String.prototype.includes
includes(s, w) == \E i \in 1..(Len(s) + 1) : StartsAt(s, i, w)

(***************************************************************************)
(* findBestNameMatch                                                       *)
(***************************************************************************)
\* first position >= i of s that holds a blank (Len(s)+1 if none)
RECURSIVE NextBlank(_, _)
NextBlank(s, i) == IF i <= Len(s) /\ s[i] # " " THEN NextBlank(s, i + 1) ELSE i

\* .split(' ') from position i: the pieces between the blanks, empty pieces
\* included
RECURSIVE split(_, _)
split(s, i) ==
    Let(NextBlank(s, i), LAMBDA e :
        IF e > Len(s) THEN <<SubSeq(s, i, Len(s))>>
        ELSE <<SubSeq(s, i, e - 1)>> \o split(s, e + 1))

\* .filter(word => word.length > 2)
LongWords(ws) == SelectSeq(ws, LAMBDA word : Len(word) > 2)

Words(clean) == Let(split(clean, 1), LAMBDA ws : LongWords(ws))

\* an entry of the register has a name unless the payload left it out
HasName(halal) == "name" \in DOMAIN halal

\* matchingWords.length
MatchingCount(merchantWords, halalWords) ==
    Cardinality({i \in 1..Len(merchantWords) :
        \E j \in 1..Len(halalWords) :
            \/ includes(halalWords[j], merchantWords[i])
            \/ includes(merchantWords[i], halalWords[j])
            \/ isWordSimilar(merchantWords[i], halalWords[j])})

\* line 136 with a threshold of 0.8
QualifiesWith_Loose(m, merchantWords, halalWords) ==
    /\ 10 * m >= 8 * Max2(Len(merchantWords), Len(halalWords))
    /\ m >= 2
    /\ Len(merchantWords) >= 2
\* line 136 testing the similarity alone
QualifiesWith_NoMinimum(m, merchantWords, halalWords) ==
    /\ m > 0
    /\ 10 * m >= 9 * Max2(Len(merchantWords), Len(halalWords))
\* similarity >= 0.9 && matchingWords.length >= 2 && merchantWords.length >= 2
QualifiesWith(m, merchantWords, halalWords) ==
    /\ 10 * m >= 9 * Max2(Len(merchantWords), Len(halalWords))
    /\ m >= 2
    /\ Len(merchantWords) >= 2

Qualifies(merchantWords, halalWords) ==
    Let(MatchingCount(merchantWords, halalWords),
        LAMBDA m : QualifiesWith(m, merchantWords, halalWords))

\* similarity a/b > c/d for positive b, d
FracGreater(a, b, c, d) == a * d > c * b

NoBest == [found |-> FALSE]

\* lines 144-148 comparing the similarity alone
Better_SimilarityOnly(bestMatch, halal, m, d, hasPostalMatch) ==
    IF \/ ~bestMatch.found
       \/ FracGreater(m, d, bestMatch.num, bestMatch.den)
    THEN [found |-> TRUE, establishment |-> halal, num |-> m, den |-> d,
          hasPostal |-> hasPostalMatch]
    ELSE bestMatch
\* lines 144-148: the running best candidate after the candidate halal with
\* m matching words
Better(bestMatch, halal, m, d, hasPostalMatch) ==
    IF \/ ~bestMatch.found
       \/ hasPostalMatch /\ ~bestMatch.hasPostal
       \/ /\ hasPostalMatch = bestMatch.hasPostal
          /\ FracGreater(m, d, bestMatch.num, bestMatch.den)
    THEN [found |-> TRUE, establishment |-> halal, num |-> m, den |-> d,
          hasPostal |-> hasPostalMatch]
    ELSE bestMatch

\* one round of the loop over the register
FuzzyStep(halal, merchantWords, halalWords, merchantPostal, bestMatch) ==
    Let(MatchingCount(merchantWords, halalWords), LAMBDA m :
        IF QualifiesWith(m, merchantWords, halalWords)
        THEN Better(bestMatch, halal, m,
                    Max2(Len(merchantWords), Len(halalWords)),
                    halal.postal = merchantPostal)
        ELSE bestMatch)

\* the loop over the register with its running best candidate
RECURSIVE FuzzyLoop(_, _, _, _, _)
FuzzyLoop(entries, merchantWords, merchantPostal, k, bestMatch) ==
    IF k > Len(entries) THEN bestMatch
    ELSE Let(Words(cleanName(entries[k].name)), LAMBDA halalWords :
         Let(FuzzyStep(entries[k], merchantWords, halalWords, merchantPostal, bestMatch),
             LAMBDA next :
                 FuzzyLoop(entries, merchantWords, merchantPostal, k + 1, next)))

\* line 108 comparing the raw name of the entry
ExactIndex_Raw(entries, cleanMerchantName) ==
    LET hits == {k \in 1..Len(entries) :
                    HasName(entries[k]) /\ entries[k].name = cleanMerchantName}
    IN  IF hits = {} THEN 0 ELSE CHOOSE k \in hits : \A j \in hits : k <= j
\* line 107 looking at the first entry of the register only
ExactIndex_FirstOnly(entries, cleanMerchantName) ==
    IF /\ Len(entries) > 0
       /\ HasName(entries[1])
       /\ cleanName(entries[1].name) = cleanMerchantName
    THEN 1 ELSE 0
\* index of the entry Array.prototype.find returns, 0 if none
ExactIndex(entries, cleanMerchantName) ==
    LET hits == {k \in 1..Len(entries) :
                    HasName(entries[k]) /\ cleanName(entries[k].name) = cleanMerchantName}
    IN  IF hits = {} THEN 0 ELSE CHOOSE k \in hits : \A j \in hits : k <= j

\* index of the first entry without a name, 0 if none: cleanName(undefined)
\* throws a TypeError when the scan reaches it
FirstNameless(entries) ==
    LET bad == {k \in 1..Len(entries) : ~HasName(entries[k])}
    IN  IF bad = {} THEN 0 ELSE CHOOSE k \in bad : \A j \in bad : k <= j

Throws == [kind |-> "throw"]
Null   == [kind |-> "null"]

ExactResult(halal, merchantPostal) ==
    [kind |-> "match", establishment |-> halal,
     source |-> IF halal.postal = merchantPostal
                THEN "MUIS_VERIFIED_EXACT_POSTAL"
                ELSE "MUIS_VERIFIED_EXACT_NAME"]

FuzzyResult(bestMatch) ==
    IF bestMatch.found THEN
        [kind |-> "match", establishment |-> bestMatch.establishment,
         source |-> IF bestMatch.hasPostal
                    THEN "MUIS_VERIFIED_SIMILAR_POSTAL"
                    ELSE "MUIS_VERIFIED_SIMILAR_NAME"]
    ELSE Null

findBestNameMatch(entries, merchantName, merchantPostal) ==
    Let(cleanName(merchantName), LAMBDA cleanMerchantName :
    Let(ExactIndex(entries, cleanMerchantName), LAMBDA x :
    Let(FirstNameless(entries), LAMBDA bad :
        IF bad > 0 /\ (x = 0 \/ bad < x) THEN Throws
        ELSE IF x > 0 THEN ExactResult(entries[x], merchantPostal)
        ELSE Let(Words(cleanMerchantName), LAMBDA merchantWords :
             Let(FuzzyLoop(entries, merchantWords, merchantPostal, 1, NoBest),
                 LAMBDA bestMatch : FuzzyResult(bestMatch))))))

(***************************************************************************)
(* isHalal after the await of initialize                                   *)
(***************************************************************************)
\* A JSON value response.json() can resolve to: an array of entries, an
\* object that is no array (no length, no find), or null.
JsonArray(items) == [kind |-> "array", items |-> items]
JsonObject == [kind |-> "object"]
JsonNull   == [kind |-> "null"]

Exception == [kind |-> "exception"]

\* this.halalEstablishments.length === 0
DataUnavailable(h) == h.kind = "array" /\ Len(h.items) = 0

\* a keyword fallback in place of lines 79-82
UnavailableVerdict_Keyword(merchant) ==
    IF includes(toLowerCase(merchant.name), <<"h","a","l","a","l">>)
    THEN [kind |-> "verdict", isHalal |-> TRUE, source |-> "KEYWORD_MATCH"]
    ELSE [kind |-> "verdict", isHalal |-> FALSE, source |-> "HALAL_DATA_UNAVAILABLE"]
UnavailableVerdict(merchant) ==
    [kind |-> "verdict", isHalal |-> FALSE, source |-> "HALAL_DATA_UNAVAILABLE"]

\* line 92 reading another field of the establishment
MatchVerdict_WrongField(bestMatch) ==
    [kind |-> "verdict", isHalal |-> TRUE, source |-> bestMatch.source,
     certNumber |-> bestMatch.establishment.postal]
MatchVerdict(bestMatch) ==
    [kind |-> "verdict", isHalal |-> TRUE, source |-> bestMatch.source,
     certNumber |-> bestMatch.establishment.number]

NotFoundVerdict ==
    [kind |-> "verdict", isHalal |-> FALSE, source |-> "NOT_IN_OFFICIAL_RECORDS"]

\* the body of isHalal from line 76 on, reading the register h:
\* null.length and h.find of a non-array throw a TypeError
isHalal(h, merchant) ==
    IF h.kind = "null" THEN Exception
    ELSE IF DataUnavailable(h) THEN UnavailableVerdict(merchant)
    ELSE IF h.kind # "array" THEN Exception
    ELSE Let(findBestNameMatch(h.items, merchant.name, merchant.postalCode),
             LAMBDA bestMatch :
                 IF bestMatch.kind = "throw" THEN Exception
                 ELSE IF bestMatch.kind = "match" THEN MatchVerdict(bestMatch)
                 ELSE NotFoundVerdict)

(***************************************************************************)
(* The inputs of the model                                                 *)
(***************************************************************************)
NameABC       == <<"A","B","C">>
NameABCUnit   == <<"A","B","C"," ","P","t","e"," ","L","t","d"," ","#","0","1","-","2","3">>
NameHalalCnr  == <<"H","a","l","a","l"," ","F","o","o","d"," ","C","n","r">>
NameHalalCorner == <<"H","A","L","A","L"," ","F","O","O","D"," ","C","O","R","N","E","R">>
NameXYZ       == <<"X","Y","Z">>

EntryABC    == [name |-> NameABC, postal |-> "111111", number |-> "C001"]
EntryCorner == [name |-> NameHalalCorner, postal |-> "222222", number |-> "C002"]
EntryNameless == [postal |-> "333333", number |-> "C003"]

Registers == { <<>>, <<EntryABC>>, <<EntryCorner, EntryABC>>,
               <<EntryABC, EntryNameless>>, <<EntryNameless, EntryABC>> }

\* what response.json() can resolve to
JsonValues == {JsonArray(r) : r \in Registers} \cup {JsonObject, JsonNull}

Merchants == { [name |-> NameABC,      postalCode |-> "111111"],
               [name |-> NameABCUnit,  postalCode |-> "222222"],
               [name |-> NameHalalCnr, postalCode |-> "222222"],
               [name |-> NameXYZ,      postalCode |-> "111111"] }

NoMerchant == [name |-> <<>>, postalCode |-> ""]

NumCallers == 2
Callers == 1..NumCallers
\* calls of isHalal or initialize the process makes
MaxCalls == 2

maxRetries == 3

(***************************************************************************)
(* State                                                                   *)
(***************************************************************************)
VARIABLES
    halalEstablishments,  \* HalalService.halalEstablishments, a JSON value
    initialized,          \* HalalService.initialized
    pc,          \* per caller: "idle", or the await its call is suspended at
    op,          \* per caller: the public operation it called
    arg,         \* per caller: the merchant of its isHalal call
    attempt,     \* per caller: the loop variable of initialize
    seqFetches,  \* per caller: fetches issued by its initialization sequence
    failed,      \* per caller: attempts of its sequence the catch block handled
    ended,       \* per caller: how its sequence ended
    fetches,     \* fetches issued by the process
    calls,       \* calls made by the process
    loads,       \* attempts that stored their payload and returned (line 51)
    storedBy,    \* which code last assigned halalEstablishments
    last,        \* the last call that completed: what it read and returned
    input,       \* the matcher on its own: the register and merchant it is given
    output,      \* the matcher on its own: what it computed for input
    now,              \* Date.now(), in milliseconds since the page was loaded
    halalCache,       \* MUISHalalService.halalCache
    lastCacheUpdate,  \* MUISHalalService.lastCacheUpdate
    muis,             \* the call of MUISHalalService.isHalalCertified
    localStorage,     \* the browser's localStorage, the keys of DataManager
    refresh,          \* the call of DataManager.refreshAllData, its locals
    dataCall,         \* the last call that read or wrote the keys of DataManager
    proxy             \* the call of fetchWithProxy

vars == <<halalEstablishments, initialized, pc, op, arg, attempt, seqFetches,
          failed, ended, fetches, calls, loads, storedBy, last, input, output,
          now, halalCache, lastCacheUpdate, muis, localStorage, refresh, dataCall,
          proxy>>

\* the variables of the service, and those of the matcher taken on its own
service == <<halalEstablishments, initialized, pc, op, arg, attempt, seqFetches,
             failed, ended, fetches, calls, loads, storedBy, last>>
matcher == <<input, output>>
\* the clock, and the variables of the other services of the application
halalCertifier == <<halalCache, lastCacheUpdate, muis>>
dataManager == <<localStorage, refresh, dataCall>>
app == <<now, halalCertifier, dataManager, proxy>>

NoInput == [kind |-> "none"]
NoOutput == [kind |-> "none"]

NoCall == [op |-> "none"]

\* the service right after the class is loaded (lines 14-15)
InitService ==
    /\ halalEstablishments = JsonArray(<<>>)
    /\ initialized = FALSE
    /\ pc = [c \in Callers |-> "idle"]
    /\ op = [c \in Callers |-> "none"]
    /\ arg = [c \in Callers |-> NoMerchant]
    /\ attempt = [c \in Callers |-> 0]
    /\ seqFetches = [c \in Callers |-> 0]
    /\ failed = [c \in Callers |-> 0]
    /\ ended = [c \in Callers |-> "none"]
    /\ fetches = 0
    /\ calls = 0
    /\ loads = 0
    /\ storedBy = "none"
    /\ last = NoCall

\* no entry in a Map, no call in progress
EmptyMap == [k \in {} |-> Null]
Idle == [pc |-> "idle"]

STORAGE_KEY == "cdc_enhanced_merchants"
VERSION_KEY == "cdc_data_version"
LAST_UPDATE_KEY == "cdc_last_update"
StorageKeys == {STORAGE_KEY, VERSION_KEY, LAST_UPDATE_KEY}

\* the other services right after the page is loaded: empty maps, null
\* fields, a localStorage without the keys of DataManager
InitApp ==
    /\ now = 0
    /\ halalCache = EmptyMap
    /\ lastCacheUpdate = Null
    /\ muis = Idle
    /\ localStorage = [k \in StorageKeys |-> Null]
    /\ refresh = Idle
    /\ dataCall = NoCall
    /\ proxy = Idle

Init ==
    /\ InitService
    /\ InitApp
    /\ input = NoInput
    /\ output = NoOutput

(***************************************************************************)
(* Pieces of initialize and isHalal                                        *)
(***************************************************************************)
\* line 18 left out: every call starts a load sequence
AlreadyInitialized_Never(init) == FALSE
\* line 18: if (this.initialized) return
AlreadyInitialized(init) == init

\* line 58 off by one: the loop goes round once more
RetryAfter_OffByOne(a) == a <= maxRetries
\* line 58: if (attempt < maxRetries), the catch block waits and the loop retries
RetryAfter(a) == a < maxRetries

\* line 59: the wait after failed attempt a, in milliseconds
Delay(a) == (2 ^ a) * 1000

\* line 69: the register the exhausted sequence stores
ExhaustedRegister == JsonArray(<<>>)

\* isHalal tabulated over the registers and merchants of the model, so that
\* it is computed once per pair and not once per step
isHalalOn == [h \in JsonValues \cup {ExhaustedRegister}, m \in Merchants |-> isHalal(h, m)]

\* initialize has returned to caller c, which finds register h: an isHalal
\* call runs its body on h, a bare initialize call just completes; the frame
\* of the call (op, arg) is gone
Return(c, o, m, h, how) ==
    /\ pc' = [pc EXCEPT ![c] = "idle"]
    /\ op' = [op EXCEPT ![c] = "none"]
    /\ arg' = [arg EXCEPT ![c] = NoMerchant]
    /\ last' = [op |-> o, merchant |-> m, reg |-> h, load |-> how,
                outcome |-> IF o = "isHalal" THEN isHalalOn[h, m]
                            ELSE [kind |-> "void"]]

\* lines 31-40: the loop body issues the fetch and awaits it
IssueFetch(c, a) ==
    /\ attempt' = [attempt EXCEPT ![c] = a]
    /\ fetches' = fetches + 1
    /\ pc' = [pc EXCEPT ![c] = "fetch"]

\* a call that finds the register loaded clears the flag for the next call
Call_Reloading(c, o, m) ==
    /\ pc[c] = "idle"
    /\ calls < MaxCalls
    /\ calls' = calls + 1
    /\ IF AlreadyInitialized(initialized)
       THEN /\ Return(c, o, m, halalEstablishments, storedBy)
            /\ initialized' = FALSE
            /\ UNCHANGED <<attempt, seqFetches, failed, ended, fetches>>
       ELSE /\ IssueFetch(c, 1)
            /\ op' = [op EXCEPT ![c] = o]
            /\ arg' = [arg EXCEPT ![c] = m]
            /\ seqFetches' = [seqFetches EXCEPT ![c] = 1]
            /\ failed' = [failed EXCEPT ![c] = 0]
            /\ ended' = [ended EXCEPT ![c] = "none"]
            /\ UNCHANGED <<initialized, last>>
    /\ UNCHANGED <<halalEstablishments, loads, storedBy>>
    /\ UNCHANGED <<matcher, app>>

\* A call of isHalal(m) or of initialize() by an idle caller, up to its first
\* await: either initialize returns at once, or the first fetch is issued.
Call(c, o, m) ==
    /\ pc[c] = "idle"
    /\ calls < MaxCalls
    /\ calls' = calls + 1
    /\ IF AlreadyInitialized(initialized)
       THEN /\ Return(c, o, m, halalEstablishments, storedBy)
            /\ UNCHANGED <<attempt, seqFetches, failed, ended, fetches>>
       ELSE /\ IssueFetch(c, 1)
            /\ op' = [op EXCEPT ![c] = o]
            /\ arg' = [arg EXCEPT ![c] = m]
            /\ seqFetches' = [seqFetches EXCEPT ![c] = 1]
            /\ failed' = [failed EXCEPT ![c] = 0]
            /\ ended' = [ended EXCEPT ![c] = "none"]
            /\ UNCHANGED last
    /\ UNCHANGED <<halalEstablishments, initialized, loads, storedBy>>
    /\ UNCHANGED <<matcher, app>>

CallIsHalal(c, m) == Call(c, "isHalal", m)
CallInitialize(c) == Call(c, "initialize", NoMerchant)

\* lines 53-70: the catch block for the attempt of caller c, entered with the
\* register h, the flag init and the ghost how as the try block left them;
\* then either the backoff wait, or the end of the loop and lines 66-70.
Catch(c, h, init, how) ==
    /\ failed' = [failed EXCEPT ![c] = @ + 1]
    /\ IF RetryAfter(attempt[c])
       THEN /\ pc' = [pc EXCEPT ![c] = "backoff"]
            /\ halalEstablishments' = h
            /\ initialized' = init
            /\ storedBy' = how
            /\ UNCHANGED <<op, arg, ended, last>>
       ELSE /\ halalEstablishments' = ExhaustedRegister
            /\ initialized' = TRUE
            /\ storedBy' = "exhausted"
            /\ ended' = [ended EXCEPT ![c] = "exhausted"]
            /\ Return(c, op[c], arg[c], ExhaustedRegister, "exhausted")
    /\ UNCHANGED <<attempt, seqFetches, fetches, calls, loads>>
    /\ UNCHANGED <<matcher, app>>

\* the fetch rejects: network error, or abort by the 10 second timer
FetchRejects(c) ==
    /\ pc[c] = "fetch"
    /\ Catch(c, halalEstablishments, initialized, storedBy)

\* the fetch resolves with a response whose ok is false: line 45 throws
FetchNotOk(c) ==
    /\ pc[c] = "fetch"
    /\ Catch(c, halalEstablishments, initialized, storedBy)

\* the fetch resolves with an ok response: lines 42-48 up to the await of json()
FetchOk(c) ==
    /\ pc[c] = "fetch"
    /\ pc' = [pc EXCEPT ![c] = "json"]
    /\ UNCHANGED <<halalEstablishments, initialized, op, arg, attempt, seqFetches,
                   failed, ended, fetches, calls, loads, storedBy, last>>
    /\ UNCHANGED <<matcher, app>>

\* response.json() rejects: the body is no JSON
JsonRejects(c) ==
    /\ pc[c] = "json"
    /\ Catch(c, halalEstablishments, initialized, storedBy)

\* response.json() resolves to v: lines 48-51.  Line 50 reads the length of
\* what was stored, which throws for null after both assignments were made.
JsonResolves(c, v) ==
    /\ pc[c] = "json"
    /\ IF v.kind = "null"
       THEN Catch(c, v, TRUE, "thrown")
       ELSE /\ halalEstablishments' = v
            /\ initialized' = TRUE
            /\ storedBy' = "success"
            /\ loads' = loads + 1
            /\ ended' = [ended EXCEPT ![c] = "success"]
            /\ Return(c, op[c], arg[c], v, "success")
            /\ UNCHANGED <<attempt, seqFetches, failed, fetches, calls>>
            /\ UNCHANGED <<matcher, app>>

\* the backoff timer fires: the loop goes round and issues the next fetch
BackoffElapses(c) ==
    /\ pc[c] = "backoff"
    /\ IssueFetch(c, attempt[c] + 1)
    /\ seqFetches' = [seqFetches EXCEPT ![c] = @ + 1]
    /\ UNCHANGED <<halalEstablishments, initialized, op, arg, failed, ended,
                   calls, loads, storedBy, last>>
    /\ UNCHANGED <<matcher, app>>

Next ==
    \E c \in Callers :
        \/ \E m \in Merchants : CallIsHalal(c, m)
        \/ CallInitialize(c)
        \/ FetchRejects(c)
        \/ FetchNotOk(c)
        \/ FetchOk(c)
        \/ JsonRejects(c)
        \/ \E v \in JsonValues : JsonResolves(c, v)
        \/ BackoffElapses(c)

Spec == Init /\ [][Next]_vars

\* The same operations when the process makes its calls one after the other:
\* a call starts only when no other call is in progress.
AllIdle == \A c \in Callers : pc[c] = "idle"

NextSeq ==
    \E c \in Callers :
        \/ AllIdle /\ \E m \in Merchants : CallIsHalal(c, m)
        \/ AllIdle /\ CallInitialize(c)
        \/ FetchRejects(c)
        \/ FetchNotOk(c)
        \/ FetchOk(c)
        \/ JsonRejects(c)
        \/ \E v \in JsonValues : JsonResolves(c, v)
        \/ BackoffElapses(c)

SpecSeq == Init /\ [][NextSeq]_vars

(***************************************************************************)
(* Properties                                                              *)
(***************************************************************************)
InSequence(c) == pc[c] \in {"fetch", "json", "backoff"}
Unavailable == [kind |-> "verdict", isHalal |-> FALSE, source |-> "HALAL_DATA_UNAVAILABLE"]
Returned == last.op = "isHalal"
MatchSources == {"MUIS_VERIFIED_EXACT_POSTAL", "MUIS_VERIFIED_EXACT_NAME",
                 "MUIS_VERIFIED_SIMILAR_POSTAL", "MUIS_VERIFIED_SIMILAR_NAME"}

\* C1: when several calls start before the register is ready, one load
\* sequence runs: the process issues at most 3 fetches and at most one caller
\* is in a load sequence of its own.
C1_SingleLoadSequence ==
    /\ fetches <= maxRetries
    /\ Cardinality({c \in Callers : InSequence(c)}) <= 1

\* C2: once an attempt has succeeded and stored the register, the stored
\* register never changes again.
C2_StoredRegisterNeverChanges ==
    [][loads > 0 => halalEstablishments' = halalEstablishments]_vars

\* C3: after 3 failed attempts (the process has issued exactly 3 fetches and
\* the sequence that issued them has exhausted its retries), no step issues a
\* fetch, and every isHalal call that returns has isHalal false with the
\* unavailable source.
C3_FrozenAfterExhaustion ==
    [][(storedBy = "exhausted" /\ fetches = maxRetries)
        => /\ fetches' = fetches
           /\ (calls' # calls /\ last'.op = "isHalal" => last'.outcome = Unavailable)]_vars

C3_Witness ==
    /\ storedBy = "exhausted" /\ fetches = maxRetries
    /\ calls >= 2 /\ Returned /\ AllIdle
    /\ last.outcome = Unavailable

\* C4: once the register is marked loaded a call returns at once and issues no
\* fetch; with sequential calls, after a successful load no further fetch is
\* issued and no further load happens (the register is loaded exactly once).
C4_LoadedMeansNoFetch ==
    [][/\ (initialized /\ calls' # calls => fetches' = fetches /\ pc' = pc)
       /\ (loads > 0 => fetches' = fetches /\ loads' = loads)]_vars

C4_Witness ==
    /\ loads = 1 /\ calls >= 2 /\ AllIdle
    /\ last.load = "success"

\* The parts of C5 that speak of one sequence: at most 3 attempts, attempt
\* k+1 only after attempt k failed, the sequence stops at its first
\* successful attempt, and it exhausts only after exactly 3 failures.
SequenceShape ==
    \A c \in Callers :
        /\ seqFetches[c] <= maxRetries
        /\ attempt[c] = seqFetches[c]
        /\ seqFetches[c] <= failed[c] + 1
        /\ InSequence(c) => ended[c] = "none"
        /\ pc[c] \in {"fetch", "json"} => failed[c] = seqFetches[c] - 1
        /\ pc[c] = "backoff" => failed[c] = seqFetches[c]
        /\ ended[c] = "success" =>
              /\ pc[c] = "idle" /\ initialized
              /\ failed[c] = seqFetches[c] - 1
        /\ ended[c] = "exhausted" =>
              /\ pc[c] = "idle" /\ initialized
              /\ failed[c] = maxRetries /\ seqFetches[c] = maxRetries

EmptyLoaded == initialized /\ halalEstablishments = JsonArray(<<>>)

\* C5 as stated: ... and the register is marked loaded with an empty entry
\* set only after exactly 3 failed attempts.
C5_EmptyOnlyAfterThreeFailures ==
    /\ SequenceShape
    /\ EmptyLoaded => \E c \in Callers : ended[c] = "exhausted" /\ failed[c] = maxRetries

\* C5 amended: a sequence makes at most 3 attempts, attempt k+1 only after
\* attempt k failed, and stops at its first successful attempt by storing the
\* payload and marking the register loaded; the register is marked loaded
\* with an empty entry set only by a sequence after exactly 3 failed attempts
\* or by a successful attempt whose payload is the empty array.
C5_EmptyAfterThreeFailuresOrEmptyPayload ==
    /\ SequenceShape
    /\ EmptyLoaded =>
          \/ storedBy = "success"
          \/ /\ storedBy = "exhausted"
             /\ \E c \in Callers : ended[c] = "exhausted" /\ failed[c] = maxRetries

C5_Witness ==
    /\ EmptyLoaded /\ storedBy = "exhausted"
    /\ \E c \in Callers : ended[c] = "exhausted" /\ seqFetches[c] = maxRetries
    /\ \E c \in Callers : ended[c] = "success" /\ failed[c] = 1

\* C6: isHalal never throws: every isHalal call that completes returns a
\* verdict.
C6_NeverThrows == Returned => last.outcome.kind = "verdict"

\* C7: the unavailable verdict is returned only when the load failed after
\* exhausting the retries, never after a successful load.
C7_UnavailableOnlyAfterExhaustion ==
    (Returned /\ last.outcome = Unavailable) => last.load = "exhausted"

\* C8: when the register is unavailable (the load exhausted its retries),
\* isHalal returns isHalal false with the unavailable source whatever the
\* merchant.
C8_UnavailableForEveryMerchant ==
    (Returned /\ last.load = "exhausted") => last.outcome = Unavailable

C8_Witness ==
    /\ Returned /\ last.load = "exhausted"
    /\ last.merchant.name = NameHalalCnr
    /\ last.outcome = Unavailable

\* every entry of the array has a name
WellFormed(h) == h.kind = "array" /\ \A k \in 1..Len(h.items) : HasName(h.items[k])

\* the (source, certificate) pairs an entry of register h justifies for
\* merchant m: its cleaned name equals the merchant's (exact sources) or it
\* qualifies as a fuzzy candidate (similar sources), with the postal sources
\* only for an equal postal code
JustifiedBy(halal, m) ==
    Let(cleanName(halal.name), LAMBDA cleanHalal :
    Let(cleanName(m.name), LAMBDA cleanMerchant :
    Let(Words(cleanHalal), LAMBDA halalWords :
    Let(Words(cleanMerchant), LAMBDA merchantWords :
    Let(Qualifies(merchantWords, halalWords), LAMBDA fuzzy :
    LET exact == cleanHalal = cleanMerchant
        postal == halal.postal = m.postalCode
    IN  {[source |-> src, number |-> halal.number] : src \in
            {x \in MatchSources :
                \/ x = "MUIS_VERIFIED_EXACT_POSTAL" /\ exact /\ postal
                \/ x = "MUIS_VERIFIED_EXACT_NAME" /\ exact /\ ~postal
                \/ x = "MUIS_VERIFIED_SIMILAR_POSTAL" /\ fuzzy /\ postal
                \/ x = "MUIS_VERIFIED_SIMILAR_NAME" /\ fuzzy /\ ~postal}})))))

Justified ==
    [h \in JsonValues \cup {ExhaustedRegister}, m \in Merchants |->
        IF h.kind # "array" THEN {}
        ELSE UNION {JustifiedBy(h.items[k], m) :
                        k \in {j \in 1..Len(h.items) : HasName(h.items[j])}}]

\* C9: in every verdict isHalal returns, isHalal is true iff the source is
\* one of the four match sources, and a certificate number is present iff
\* isHalal is true, and then it is the number of a register entry that
\* matches the merchant the way the source says.
C9_VerdictShape ==
    (Returned /\ last.outcome.kind = "verdict") =>
        LET v == last.outcome
        IN  /\ v.isHalal <=> v.source \in MatchSources
            /\ v.isHalal <=> "certNumber" \in DOMAIN v
            /\ v.isHalal =>
                  [source |-> v.source, number |-> v.certNumber]
                      \in Justified[last.reg, last.merchant]

C9_Witness ==
    /\ Returned /\ last.outcome.kind = "verdict"
    /\ last.outcome.isHalal
    /\ last.outcome.source = "MUIS_VERIFIED_SIMILAR_POSTAL"
    /\ last.outcome.certNumber = "C002"

\* what C10 predicts for merchant m on register h, NoPrediction where its
\* premise (a register of named entries, exactly one of them with a cleaned
\* name equal to the merchant's) does not hold
NoPrediction == [kind |-> "none"]

ExactPrediction ==
    [h \in JsonValues \cup {ExhaustedRegister}, m \in Merchants |->
        IF ~WellFormed(h) THEN NoPrediction
        ELSE Let(cleanName(m.name), LAMBDA cleanMerchant :
             Let({k \in 1..Len(h.items) : cleanName(h.items[k].name) = cleanMerchant},
                 LAMBDA same :
                 IF Cardinality(same) # 1 THEN NoPrediction
                 ELSE LET e == h.items[CHOOSE k \in same : TRUE]
                      IN  [kind |-> "verdict", isHalal |-> TRUE,
                           source |-> IF e.postal = m.postalCode
                                      THEN "MUIS_VERIFIED_EXACT_POSTAL"
                                      ELSE "MUIS_VERIFIED_EXACT_NAME",
                           certNumber |-> e.number]))]

\* C10: if exactly one entry of the register has a cleaned name equal to the
\* merchant's cleaned name, the verdict is the exact-postal source with that
\* entry's certificate when the postal codes are equal, and the exact-name
\* source with that entry's certificate otherwise.
C10_ExactPass ==
    (Returned /\ ExactPrediction[last.reg, last.merchant] # NoPrediction)
        => last.outcome = ExactPrediction[last.reg, last.merchant]

C10_Witness ==
    /\ Returned
    /\ last.merchant.name = NameABCUnit
    /\ last.reg = JsonArray(<<EntryCorner, EntryABC>>)
    /\ last.outcome.kind = "verdict"
    /\ last.outcome.source = "MUIS_VERIFIED_EXACT_NAME"
    /\ last.outcome.certNumber = "C001"

(***************************************************************************)
(* The matcher on its own                                                  *)
(***************************************************************************)
\* findBestNameMatch and cleanName read nothing but their arguments and the
\* register, so they are also run on their own: Init draws a register of
\* named entries and a merchant, Match applies cleanName and the body of
\* isHalal to them.

RECURSIVE Concat(_, _)
Concat(parts, i) == IF i > Len(parts) THEN <<>> ELSE parts[i] \o Concat(parts, i + 1)

\* merchant names put together from a few pieces: words in mixed case, a
\* corporate token, blanks, punctuation, '#' and a digit
Pieces == { <<"F","a","l","a","h">>, <<"R","E","S","T">>, <<"P","t","e">>,
            <<" ">>, <<"-">>, <<"#">>, <<"1">> }
MaxPieces == 3
PieceNames == UNION {{Concat(t, 1) : t \in [1..n -> Pieces]} : n \in 0..MaxPieces}

NameFalahRest       == <<"F","A","L","A","H"," ","R","E","S","T"," ","P","T","E"," ","L","T","D">>
NameFalahRestaurant == <<"F","a","l","a","h"," ","R","e","s","t","a","u","r","a","n","t">>
NameFalah1          == <<"F","a","l","a","h"," ","1">>
NamePteLtd          == <<"P","t","e"," ","L","t","d">>
NameAlFalah         == <<"A","l","-","F","a","l","a","h"," ","R","e","s","t","a","u","r","a","n","t">>
NameAlFalahPteLtd   == <<"A","L"," ","F","A","L","A","H"," ","R","E","S","T","A","U","R","A","N","T",
                         " ","P","T","E"," ","L","T","D">>

\* a name of the words from..to of a list of three-letter words that share
\* no word with each other
LongWord(k) == <<"w", LowerSeq[k], LowerSeq[k]>>
RECURSIVE LongName(_, _)
LongName(from, to) ==
    IF from > to THEN <<>>
    ELSE IF from = to THEN LongWord(from)
    ELSE LongWord(from) \o <<" ">> \o LongName(from + 1, to)
NameLong9   == LongName(1, 9)
NameLong10  == LongName(1, 10)
NameLong11  == LongName(1, 11)
\* the ten words of NameLong10 with the last one in the plural
NameLong10s == LongName(1, 10) \o <<"s">>

EntryFalahRest       == [name |-> NameFalahRest, postal |-> "520123", number |-> "C011"]
EntryFalahRestaurant == [name |-> NameFalahRestaurant, postal |-> "520123", number |-> "C012"]
EntryFalah1          == [name |-> NameFalah1, postal |-> "520123", number |-> "C013"]
EntryPteLtd          == [name |-> NamePteLtd, postal |-> "520123", number |-> "C014"]
EntryAlFalah         == [name |-> NameAlFalahPteLtd, postal |-> "520123", number |-> "C001"]
EntryABCBranch       == [name |-> NameABCUnit, postal |-> "222222", number |-> "C004"]
EntryCnr             == [name |-> NameHalalCnr, postal |-> "111111", number |-> "C005"]
EntryLong11          == [name |-> NameLong11, postal |-> "444444", number |-> "C006"]
EntryLong10s         == [name |-> NameLong10s, postal |-> "555555", number |-> "C007"]

SingleEntries == {EntryFalahRest, EntryFalahRestaurant, EntryFalah1, EntryPteLtd}

PickedRegisters ==
    { <<EntryAlFalah>>,
      <<EntryABCBranch, EntryABC>>, <<EntryABC, EntryABCBranch>>,
      <<EntryCorner, EntryCnr>>, <<EntryCnr, EntryCorner>>,
      <<EntryLong11, EntryLong10s>>, <<EntryLong10s, EntryLong11>>,
      <<EntryLong10s>>, <<EntryLong11>> }

PickedMerchants ==
    Merchants \cup
    { [name |-> NameAlFalah, postalCode |-> "520123"],
      [name |-> NameLong10,  postalCode |-> "444444"],
      [name |-> NameLong10,  postalCode |-> "666666"],
      [name |-> NameLong9,   postalCode |-> "444444"] }

MatchInputs ==
    {[reg |-> <<e>>, merchant |-> [name |-> n, postalCode |-> "520123"]] :
        e \in SingleEntries, n \in PieceNames}
    \cup {[reg |-> r, merchant |-> m] : r \in PickedRegisters, m \in PickedMerchants}

InitMatch ==
    /\ InitService
    /\ InitApp
    /\ input \in MatchInputs
    /\ output = NoOutput

\* cleanName of the merchant's name, cleanName of that, and the verdict of
\* lines 76-100 on the register
Match ==
    /\ output = NoOutput
    /\ output' = Let(cleanName(input.merchant.name), LAMBDA clean :
                 Let(cleanName(clean), LAMBDA again :
                     [kind |-> "result", clean |-> clean, again |-> again,
                      verdict |-> isHalal(JsonArray(input.reg), input.merchant)]))
    /\ UNCHANGED input
    /\ UNCHANGED <<service, app>>

NextMatch == Match

SpecMatch == InitMatch /\ [][NextMatch]_vars

Matched == output # NoOutput

\* the entries of the register whose cleaned name equals the merchant's
SameName(reg, merchant) ==
    Let(cleanName(merchant.name), LAMBDA clean :
        {k \in 1..Len(reg) : cleanName(reg[k].name) = clean})

SamePostal(reg, merchant) == {k \in 1..Len(reg) : reg[k].postal = merchant.postalCode}

\* C11: when several entries have a cleaned name equal to the merchant's and
\* at least one of them has the merchant's postal code, the verdict is the
\* exact-postal source with the certificate of such an entry, whatever the
\* order of the register.
C11_ExactTieBreak ==
    Matched =>
        Let(SameName(input.reg, input.merchant) \cap SamePostal(input.reg, input.merchant),
            LAMBDA both :
                both # {} =>
                    /\ output.verdict.isHalal
                    /\ output.verdict.source = "MUIS_VERIFIED_EXACT_POSTAL"
                    /\ \E k \in both : input.reg[k].number = output.verdict.certNumber)

ExactSources == {"MUIS_VERIFIED_EXACT_POSTAL", "MUIS_VERIFIED_EXACT_NAME"}
SimilarSources == {"MUIS_VERIFIED_SIMILAR_POSTAL", "MUIS_VERIFIED_SIMILAR_NAME"}

\* the entries of the register that qualify as fuzzy candidates for the
\* merchant
Candidates(reg, merchant) ==
    Let(Words(cleanName(merchant.name)), LAMBDA merchantWords :
        {k \in 1..Len(reg) : Qualifies(merchantWords, Words(cleanName(reg[k].name)))})

\* C12: if any entry of the register has a cleaned name equal to the
\* merchant's, the source of the verdict is one of the two exact sources and
\* never a similar one, even when another entry is a fuzzy candidate with
\* the merchant's postal code.
C12_ExactBeforeFuzzy ==
    (Matched /\ SameName(input.reg, input.merchant) # {}) =>
        /\ output.verdict.isHalal
        /\ output.verdict.source \in ExactSources

\* the exact entry comes after a fuzzy candidate that has the merchant's
\* postal code, which the exact entry has not
C12_Witness ==
    /\ Matched
    /\ input.reg = <<EntryCorner, EntryCnr>>
    /\ input.merchant = [name |-> NameHalalCnr, postalCode |-> "222222"]
    /\ 1 \in Candidates(input.reg, input.merchant) \cap SamePostal(input.reg, input.merchant)
    /\ SameName(input.reg, input.merchant) = {2}
    /\ output.verdict.source = "MUIS_VERIFIED_EXACT_NAME"
    /\ output.verdict.certNumber = "C005"

\* the similarity of entry k to the merchant as a fraction <<num, den>>
SimilarityOf(reg, merchant, k) ==
    Let(Words(cleanName(merchant.name)), LAMBDA merchantWords :
    Let(Words(cleanName(reg[k].name)), LAMBDA halalWords :
        <<MatchingCount(merchantWords, halalWords),
          Max2(Len(merchantWords), Len(halalWords))>>))

\* candidate j comes before candidate k in the two-key order: postal match
\* first, then the higher similarity
Precedes(reg, merchant, j, k) ==
    LET pj == reg[j].postal = merchant.postalCode
        pk == reg[k].postal = merchant.postalCode
    IN  \/ pj /\ ~pk
        \/ /\ pj = pk
           /\ Let(SimilarityOf(reg, merchant, j), LAMBDA sj :
              Let(SimilarityOf(reg, merchant, k), LAMBDA sk :
                  FracGreater(sj[1], sj[2], sk[1], sk[2])))

\* C13: when the fuzzy pass runs and some entry qualifies, the entry whose
\* certificate is returned is a qualifying candidate that no other candidate
\* precedes in the order (postal match, then similarity), whatever the order
\* of the register, and the source is the similar-postal one whenever any
\* candidate has the merchant's postal code, the similar-name one otherwise.
C13_FuzzySelection ==
    Matched =>
        Let(Candidates(input.reg, input.merchant), LAMBDA cands :
            (SameName(input.reg, input.merchant) = {} /\ cands # {}) =>
                /\ output.verdict.isHalal
                /\ \E k \in cands :
                      /\ input.reg[k].number = output.verdict.certNumber
                      /\ \A j \in cands : ~Precedes(input.reg, input.merchant, j, k)
                /\ output.verdict.source =
                      IF cands \cap SamePostal(input.reg, input.merchant) # {}
                      THEN "MUIS_VERIFIED_SIMILAR_POSTAL"
                      ELSE "MUIS_VERIFIED_SIMILAR_NAME")

\* a candidate of similarity 10/11 with the merchant's postal code comes
\* after a candidate of similarity 10/10 without it, and wins
C13_Witness ==
    /\ Matched
    /\ input.reg = <<EntryLong10s, EntryLong11>>
    /\ input.merchant = [name |-> NameLong10, postalCode |-> "444444"]
    /\ Candidates(input.reg, input.merchant) = {1, 2}
    /\ SimilarityOf(input.reg, input.merchant, 1) = <<10, 10>>
    /\ SimilarityOf(input.reg, input.merchant, 2) = <<10, 11>>
    /\ output.verdict.source = "MUIS_VERIFIED_SIMILAR_POSTAL"
    /\ output.verdict.certNumber = "C006"

\* C14: a merchant whose cleaned name has fewer than 2 words of more than 2
\* characters never gets a verdict with a similar source, whatever the
\* register holds.
C14_ShortNameNeverSimilar ==
    (Matched /\ Len(Words(output.clean)) < 2) =>
        output.verdict.source \notin SimilarSources

\* a one-word merchant name that is no entry's exact name, against an entry
\* whose only long word is that word
C14_Witness ==
    /\ Matched
    /\ input.merchant.name = <<"F","a","l","a","h">>
    /\ input.reg = <<EntryFalah1>>
    /\ Len(Words(output.clean)) = 1
    /\ MatchingCount(Words(output.clean), Words(cleanName(NameFalah1))) = 1
    /\ output.verdict.source = "NOT_IN_OFFICIAL_RECORDS"

\* C15: a merchant whose name is empty, blank, or cleans to the empty string
\* matches no entry: isHalal is false for every register, also for one with
\* an entry whose own name cleans to the empty string.
C15_EmptyNameNeverMatches ==
    (Matched /\ output.clean = <<>>) => ~output.verdict.isHalal

\* C16: cleanName is idempotent: cleaning a cleaned name changes nothing.
C16_CleanNameIdempotent ==
    Matched => output.again = output.clean

\* What two names have in common when they differ only in letter case, in
\* punctuation against blanks, and in whole-word corporate tokens: the list
\* of their words (runs of word characters) in lower case, the corporate
\* tokens left out.
WordEnd(s, j) == CHOOSE e \in j..(Len(s) + 1) :
                    /\ e > Len(s) \/ ~IsWordChar(s[e])
                    /\ \A k \in j..(e - 1) : IsWordChar(s[k])

RECURSIVE RawWords(_, _)
RawWords(s, i) ==
    Let({j \in i..Len(s) : IsWordChar(s[j])}, LAMBDA starts :
        IF starts = {} THEN <<>>
        ELSE Let(CHOOSE j \in starts : \A k \in starts : j <= k, LAMBDA j :
             Let(WordEnd(s, j), LAMBDA e :
                 <<SubSeq(s, j, e - 1)>> \o RawWords(s, e))))

Skeleton(name) ==
    SelectSeq(RawWords(toLowerCase(name), 1),
              LAMBDA w : \A k \in 1..Len(CorporateWords) : w # CorporateWords[k])

NoDigit(name) == \A i \in 1..Len(name) : name[i] \notin Digit

\* the merchant's name and the name of the only entry of the register differ
\* only in case, punctuation against blanks and corporate tokens, and the
\* postal codes are equal
SameSkeleton ==
    /\ Matched
    /\ Len(input.reg) = 1
    /\ input.reg[1].postal = input.merchant.postalCode
    /\ Skeleton(input.reg[1].name) = Skeleton(input.merchant.name)

ExactPostalOfOnlyEntry ==
    /\ output.clean = cleanName(input.reg[1].name)
    /\ output.verdict.isHalal
    /\ output.verdict.source = "MUIS_VERIFIED_EXACT_POSTAL"
    /\ output.verdict.certNumber = input.reg[1].number

\* C17 as stated: two names that differ only in letter case, in punctuation
\* against blanks and in whole-word corporate tokens clean to the same
\* string, so with equal postal codes the verdict is the exact-postal source
\* with the entry's certificate.
C17_SameSkeletonMatches ==
    SameSkeleton => ExactPostalOfOnlyEntry

\* C17 for names without digits: two such names that differ only in letter
\* case, in punctuation against blanks and in whole-word corporate tokens
\* clean to the same string, and with equal postal codes the verdict is the
\* exact-postal source with the entry's certificate.
C17_SameSkeletonNoDigitMatches ==
    (/\ SameSkeleton
     /\ NoDigit(input.reg[1].name)
     /\ NoDigit(input.merchant.name)) => ExactPostalOfOnlyEntry

C17_Witness ==
    /\ SameSkeleton
    /\ input.merchant.name = NameAlFalah
    /\ input.reg = <<EntryAlFalah>>
    /\ input.merchant.name # input.reg[1].name
    /\ output.clean = <<"a","l"," ","f","a","l","a","h"," ",
                        "r","e","s","t","a","u","r","a","n","t">>
    /\ output.verdict.source = "MUIS_VERIFIED_EXACT_POSTAL"
    /\ output.verdict.certNumber = "C001"

\* C18: once the register is marked loaded, isHalal is referentially stable.
\* A call made then returns in the same step the verdict of the stored
\* register, so two such calls with the same merchant agree, whatever
\* happens between them, iff no step changes the verdict the stored register
\* gives for any merchant.
C18_ReferentiallyStable ==
    [][initialized =>
        \A m \in Merchants :
            isHalalOn[halalEstablishments', m] = isHalalOn[halalEstablishments, m]]_vars

\* C19: an isHalal call made when the register is marked loaded leaves the
\* stored register and the initialized flag as they were.
C19_CallOnLoadedChangesNothing ==
    [][(initialized /\ calls' = calls + 1 /\ last'.op = "isHalal")
        => /\ halalEstablishments' = halalEstablishments
           /\ initialized' = initialized]_vars

\* the first call loaded a register with its only fetch, the second call was
\* an isHalal that found it loaded and got a match from it
C19_Witness ==
    /\ calls = 2 /\ fetches = 1 /\ loads = 1
    /\ AllIdle
    /\ Returned
    /\ initialized
    /\ halalEstablishments = last.reg
    /\ halalEstablishments = JsonArray(<<EntryCorner, EntryABC>>)
    /\ last.outcome.kind = "verdict"
    /\ last.outcome.isHalal

\* C20: a malformed payload is a failed attempt: the register is never
\* marked loaded while it holds anything but an array of entries with a name.
C20_MalformedPayloadNeverLoaded ==
    initialized => WellFormed(halalEstablishments)

\* the three conditions of C22 for entry k, from the counts alone
MeetsThresholds(reg, merchant, k) ==
    Let(SimilarityOf(reg, merchant, k), LAMBDA sim :
        /\ sim[2] > 0
        /\ 10 * sim[1] >= 9 * sim[2]
        /\ sim[1] >= 2
        /\ Len(Words(cleanName(merchant.name))) >= 2)

\* C22: an entry is a fuzzy candidate iff the number of matching merchant
\* words over max(merchant words, entry words) is at least 0.9, at least 2
\* merchant words match and the merchant has at least 2 words; a verdict with
\* a similar source is returned only if some entry meets the three
\* conditions.
C22_FuzzyQualification ==
    Matched =>
        Let({k \in 1..Len(input.reg) : MeetsThresholds(input.reg, input.merchant, k)},
            LAMBDA meeting :
                /\ Candidates(input.reg, input.merchant) = meeting
                /\ output.verdict.source \in SimilarSources => meeting # {})

\* an entry of similarity 10/11 is taken
C22_Witness ==
    /\ Matched
    /\ input.reg = <<EntryLong11>>
    /\ input.merchant = [name |-> NameLong10, postalCode |-> "666666"]
    /\ SimilarityOf(input.reg, input.merchant, 1) = <<10, 11>>
    /\ output.verdict.source = "MUIS_VERIFIED_SIMILAR_NAME"
    /\ output.verdict.certNumber = "C006"

(***************************************************************************)
(* isWordSimilar on its own                                                *)
(***************************************************************************)
\* the words of the abbreviation table, all words of a's and b's up to
\* MaxWordLen letters, and some longer words one or two edits apart
MaxWordLen == 3
ShortWords == UNION {[1..n -> {"a", "b"}] : n \in 0..MaxWordLen}
TableWords == {VariationFull[k] : k \in 1..Len(VariationFull)}
                  \cup UNION {VariationAbbrevs[k] : k \in 1..Len(VariationAbbrevs)}
OtherWords == { <<"h","a","l","a","l">>, <<"h","a","l","e","l">>, <<"h","a","l","l">>,
                <<"f","o","o","t">>, <<"c","o","r","n","e","r","s">>,
                <<"k","i","t","c","h","e","n","s">> }
WordInputs == ShortWords \cup TableWords \cup OtherWords

InitWords ==
    /\ InitService
    /\ InitApp
    /\ input \in {[kind |-> "words", word1 |-> a, word2 |-> b] :
                     a \in WordInputs, b \in WordInputs}
    /\ output = NoOutput

\* isWordSimilar both ways round, and the distance of line 194
Similar ==
    /\ output = NoOutput
    /\ output' = [kind |-> "similar",
                  similar  |-> isWordSimilar(input.word1, input.word2),
                  swapped  |-> isWordSimilar(input.word2, input.word1),
                  distance |-> levenshteinDistance(input.word1, input.word2)]
    /\ UNCHANGED input
    /\ UNCHANGED <<service, app>>

NextWords == Similar

SpecWords == InitWords /\ [][NextWords]_vars

\* b is reached from a by at most k insertions, deletions and substitutions
\* of one character
RECURSIVE Within(_, _, _)
Within(a, b, k) ==
    IF Len(a) = 0 THEN Len(b) <= k
    ELSE IF Len(b) = 0 THEN Len(a) <= k
    ELSE IF Head(a) = Head(b) THEN Within(Tail(a), Tail(b), k)
    ELSE /\ k > 0
         /\ \/ Within(Tail(a), Tail(b), k - 1)
            \/ Within(Tail(a), b, k - 1)
            \/ Within(a, Tail(b), k - 1)

\* the numbers of edits the distance of line 194 is compared at
MaxEdits == 3

\* a and b are words of one line of the abbreviation table
SameGroup(a, b) ==
    \E k \in 1..Len(VariationFull) :
        {a, b} \subseteq {VariationFull[k]} \cup VariationAbbrevs[k]

\* C23: isWordSimilar(a, b) is true iff a and b are in the same group of the
\* abbreviation table or (len(longer) - editDistance(a, b)) / len(longer) is
\* at least 0.8, editDistance being the least number of insertions,
\* deletions and substitutions; it gives the same for (b, a); two words of
\* at most 4 letters that are one edit apart are not similar.
C23_WordSimilarity ==
    output.kind = "similar" =>
        LET a == input.word1
            b == input.word2
            longest == Max2(Len(a), Len(b))
        IN  /\ \A d \in 0..MaxEdits : output.distance <= d <=> Within(a, b, d)
            /\ output.similar <=>
                  \/ SameGroup(a, b)
                  \/ /\ longest > 0
                     /\ \E d \in 0..longest :
                           10 * (longest - d) >= 8 * longest /\ Within(a, b, d)
            /\ output.swapped = output.similar
            /\ (Len(a) <= 4 /\ Len(b) <= 4 /\ a # b /\ Within(a, b, 1))
                  => ~output.similar

\* two four-letter words one edit apart
C23_Witness ==
    /\ output.kind = "similar"
    /\ input.word1 = <<"f","o","o","d">>
    /\ input.word2 = <<"f","o","o","t">>
    /\ output.distance = 1
    /\ ~output.similar

(***************************************************************************)
(* Timers                                                                  *)
(***************************************************************************)
\* The timers of the code fire: while a fetch is pending its 10 second timer
\* (line 29) aborts it unless the fetch settles first, and the backoff timer
\* of line 61 elapses.  Line 42 clears the 10 second timer as soon as the
\* fetch has resolved, so nothing bounds the await of response.json() of
\* line 48: no fairness is stated for the arrival of the body.
Timers ==
    \A c \in Callers : WF_vars(FetchRejects(c)) /\ WF_vars(BackoffElapses(c))

SpecTimers == Init /\ [][Next]_vars /\ Timers

\* C21: when the timers fire, every load sequence ends: a caller that is in
\* its load sequence (awaiting the fetch, the body or the backoff) eventually
\* has its call returned, with the register marked loaded.
C21_EveryCallReturns ==
    \A c \in Callers : InSequence(c) ~> (pc[c] = "idle" /\ initialized)

Hour == 60 * 60 * 1000
\* the clock moves in steps of 12 hours, up to MaxTicks steps
TickSize == 12 * Hour
MaxTicks == 4

CACHE_DURATION == 24 * 60 * 60 * 1000

\* time passes
Tick ==
    /\ now < MaxTicks * TickSize
    /\ now' = now + TickSize
    /\ UNCHANGED <<service, matcher, halalCertifier, dataManager, proxy>>

\* new Date()
Date(t) == [kind |-> "date", time |-> t]

\* Map.set
Put(map, key, value) ==
    [k \in DOMAIN map \cup {key} |-> IF k = key THEN value ELSE map[k]]

halalKeywords ==
    {<<"h","a","l","a","l">>, <<"m","u","s","l","i","m">>, <<"i","s","l","a","m","i","c">>,
     <<"b","i","s","m","i","l","l","a","h">>, <<"a","s","s","a","l","a","m">>, <<"s","a","l","a","m">>,
     <<"t","u","r","k","i","s","h">>, <<"a","r","a","b">>, <<"a","r","a","b","i","a","n">>,
     <<"m","i","d","d","l","e"," ","e","a","s","t">>, <<"l","e","b","a","n","e","s","e">>, <<"m","o","r","o","c","c","a","n">>,
     <<"p","a","k","i","s","t","a","n","i">>, <<"a","f","g","h","a","n">>, <<"p","e","r","s","i","a","n">>,
     <<"k","u","r","d","i","s","h">>, <<"w","a","r","u","n","g">>, <<"n","a","s","i"," ","p","a","d","a","n","g">>,
     <<"m","a","k","a","n">>, <<"w","a","r","o","n","g">>, <<"m","a","m","a","k">>,
     <<"r","e","n","d","a","n","g">>, <<"s","a","t","a","y">>, <<"g","a","d","o"," ","g","a","d","o">>,
     <<"n","a","s","i"," ","l","e","m","a","k">>, <<"l","a","k","s","a">>, <<"b","i","r","y","a","n","i">>,
     <<"t","a","n","d","o","o","r">>, <<"m","u","t","t","o","n">>, <<"k","e","b","a","b">>,
     <<"k","o","r","m","a">>, <<"a","l","-">>, <<"i","b","n">>,
     <<"a","b","u">>, <<"f","a","t","i","m","a","h">>, <<"a","i","s","h","a">>,
     <<"k","h","a","d","i","j","a","h">>, <<"r","a","h","m","a","n">>, <<"r","a","h","i","m">>,
     <<"a","l","l","a","h">>, <<"m","o","s","q","u","e">>, <<"m","a","s","j","i","d">>}

nonHalalKeywords ==
    {<<"p","o","r","k">>, <<"b","a","c","o","n">>, <<"h","a","m">>,
     <<"c","h","a","r"," ","s","i","e","w">>, <<"s","i","u"," ","m","a","i">>, <<"w","i","n","e">>,
     <<"b","e","e","r">>, <<"a","l","c","o","h","o","l">>, <<"b","a","r">>,
     <<"p","u","b">>}

checkHalalByKeywords(merchantName, address) ==
    Let(toLowerCase(merchantName \o <<" ">> \o address), LAMBDA text :
        IF \E keyword \in nonHalalKeywords : includes(text, keyword)
        THEN FALSE
        ELSE \E keyword \in halalKeywords : includes(text, keyword))

cacheKey(merchantName, address) == toLowerCase(merchantName \o <<"_">> \o address)

isCacheValid ==
    IF lastCacheUpdate = Null THEN FALSE
    ELSE now - lastCacheUpdate.time < CACHE_DURATION

\* the merchants isHalalCertified is asked about
Certified ==
    {[name |-> <<"K","e","b","a","b">>, address |-> <<"1"," ","A">>],
     [name |-> <<"K","E","B","A","B">>, address |-> <<"1"," ","a">>],
     [name |-> <<"S","a","t","a","y"," ","B","a","r">>, address |-> <<"2"," ","B">>],
     [name |-> <<"T","o","a","s","t">>, address |-> <<"3"," ","C">>]}

\* what the call returned; storedAt is the time the entry it served was set
MuisReturn(m, result, fromCache, storedAt) ==
    [pc |-> "idle", merchant |-> m, isHalal |-> result,
     fromCache |-> fromCache, storedAt |-> storedAt, at |-> now]

\* lines 822-831: the call up to the return of line 827 or the await of
\* checkMUISAPI
Certify(m) ==
    /\ muis.pc = "idle"
    /\ muis' = Let(cacheKey(m.name, m.address), LAMBDA key :
                   IF key \in DOMAIN halalCache /\ isCacheValid
                   THEN MuisReturn(m, halalCache[key].isHalal, TRUE,
                                   halalCache[key].storedAt)
                   ELSE [pc |-> "checkMUISAPI", merchant |-> m])
    /\ UNCHANGED <<halalCache, lastCacheUpdate>>
    /\ UNCHANGED <<service, matcher, now, dataManager, proxy>>

\* lines 833-839: checkMUISAPI resolved to a result
MuisAnswers(result) ==
    /\ muis.pc = "checkMUISAPI"
    /\ halalCache' = Put(halalCache, cacheKey(muis.merchant.name, muis.merchant.address),
                         [isHalal |-> result, details |-> "muis", storedAt |-> now])
    /\ lastCacheUpdate' = Date(now)
    /\ muis' = MuisReturn(muis.merchant, result, FALSE, now)
    /\ UNCHANGED <<service, matcher, now, dataManager, proxy>>

\* lines 841-849: checkMUISAPI resolved to null
MuisUnavailable ==
    /\ muis.pc = "checkMUISAPI"
    /\ halalCache' = Put(halalCache,
                         cacheKey(muis.merchant.name, muis.merchant.address),
                         [isHalal |-> checkHalalByKeywords(muis.merchant.name,
                                                           muis.merchant.address),
                          details |-> Null, storedAt |-> now])
    /\ lastCacheUpdate' = Date(now)
    /\ muis' = MuisReturn(muis.merchant,
                          checkHalalByKeywords(muis.merchant.name,
                                               muis.merchant.address),
                          FALSE, now)
    /\ UNCHANGED <<service, matcher, now, dataManager, proxy>>

\* lines 1106-1109
MuisClearCache ==
    /\ halalCache # EmptyMap
    /\ halalCache' = EmptyMap
    /\ lastCacheUpdate' = Null
    /\ UNCHANGED muis
    /\ UNCHANGED <<service, matcher, now, dataManager, proxy>>

NextMuis ==
    \/ Tick
    \/ \E m \in Certified : Certify(m)
    \/ \E result \in BOOLEAN : MuisAnswers(result)
    \/ MuisUnavailable
    \/ MuisClearCache

SpecMuis == Init /\ [][NextMuis]_vars

\* C25: a result isHalalCertified serves from its cache was stored for that
\* key less than CACHE_DURATION (24 hours) before, whatever was stored for
\* other keys since.
C25_ServedOnlyWithin24Hours ==
    (muis.pc = "idle" /\ muis # Idle /\ muis.fromCache) =>
        muis.at - muis.storedAt < CACHE_DURATION

(***************************************************************************)
(* DataManager: the cache in localStorage and refreshAllData               *)
(***************************************************************************)
DATA_VERSION == "1.0"

\* Date.toISOString, and the time new Date reads back from such a string
toISOString(date) == [kind |-> "iso", time |-> date.time]
ParseDate(string) == [kind |-> "date", time |-> string.time]

\* a string in localStorage; getItem gives null for a key that is not set
String(value) == [kind |-> "string", value |-> value]
getItem(key) == localStorage[key]

\* lines 32-51
hasValidCachedData ==
    Let(getItem(LAST_UPDATE_KEY), LAMBDA lastUpdate :
    Let(getItem(VERSION_KEY), LAMBDA version :
        IF lastUpdate = Null \/ version = Null THEN FALSE
        ELSE IF version.value # DATA_VERSION THEN FALSE
        ELSE now - ParseDate(lastUpdate).time < 24 * Hour))

needsRefresh == ~hasValidCachedData

\* the value of this inside a callback handed to Array.map without a
\* receiver, and the class itself
Undefined == [kind |-> "undefined"]
DataManagerClass == [kind |-> "class", DATA_VERSION |-> DATA_VERSION]

\* lines 80-100: the row of a merchant; line 98 reads this.DATA_VERSION
merchantToCSV(self, merchant) ==
    IF self = Undefined THEN Exception
    ELSE [id |-> merchant.id, name |-> merchant.name,
          isHalal |-> merchant.isHalal, dataVersion |-> self.DATA_VERSION]

\* Array.map(callback): the callback runs once per element with the given
\* this, and map throws what the callback throws
MapThrows(array, callback(_, _), self) ==
    \E k \in 1..Len(array) : callback(self, array[k]) = Exception
Map(array, callback(_, _), self) ==
    [k \in 1..Len(array) |-> callback(self, array[k])]

\* lines 68-77: localStorage after saveMerchantsToCache(merchants); line 70
\* hands this.merchantToCSV to map as a bare function. full: setItem throws
\* (quota, storage disabled). Every exception ends in the catch of line 74.
Saved(merchants, thisOfCallback, full) ==
    IF MapThrows(merchants, merchantToCSV, thisOfCallback) \/ full
    THEN localStorage
    ELSE [k \in StorageKeys |->
             IF k = STORAGE_KEY
             THEN [kind |-> "json",
                   rows |-> Map(merchants, merchantToCSV, thisOfCallback)]
             ELSE IF k = LAST_UPDATE_KEY THEN toISOString(Date(now))
             ELSE String(DATA_VERSION)]

\* CDC locations
batchSize == 25
MaxLocations == 51
Totals == {0, 1, batchSize, batchSize + 1, 2 * batchSize, MaxLocations}

CdcNames == <<
    <<"A","l","i"," ","S","a","t","a","y">>,
    <<"T","o","a","s","t"," ","B","o","x">>,
    <<"N","T","U","C">> >>

Location(k) == [id |-> k, name |-> CdcNames[(k % Len(CdcNames)) + 1]]
Locations(n) == [k \in 1..n |-> Location(k)]

detectHalalKeywords ==
    {<<"h","a","l","a","l">>, <<"m","u","s","l","i","m">>, <<"i","s","l","a","m","i","c">>,
     <<"b","i","s","m","i","l","l","a","h">>, <<"s","a","l","a","m">>, <<"w","a","r","u","n","g">>,
     <<"n","a","s","i"," ","p","a","d","a","n","g">>, <<"m","a","k","a","n">>, <<"a","y","a","m">>,
     <<"k","a","m","b","i","n","g">>, <<"r","e","n","d","a","n","g">>, <<"s","a","t","a","y">>,
     <<"k","e","b","a","b">>, <<"t","u","r","k","i","s","h">>, <<"a","r","a","b">>,
     <<"m","i","d","d","l","e"," ","e","a","s","t">>, <<"b","i","r","y","a","n","i">>}

detectHalal(name) == \E keyword \in detectHalalKeywords : includes(name, keyword)

\* merchants.ts lines 68-79 (of the detected fields, isHalal)
enhanceMerchantData(merchant) ==
    [id |-> merchant.id, name |-> merchant.name,
     isHalal |-> detectHalal(toLowerCase(merchant.name)),
     businessCategory |-> Null]

\* merchants.ts lines 82-99: the external services answered, or they failed
\* and the catch of line 94 returns the basic enhancement
enhanceMerchantDataWithExternalSources(merchant, externalFails) ==
    IF externalFails
    THEN enhanceMerchantData(merchant)
    ELSE [enhanceMerchantData(merchant) EXCEPT !.businessCategory = "external"]

slice(array, from, to) ==
    [k \in 1..(Min2(to, Len(array)) - from) |-> array[from + k]]

\* which merchants of a batch the external services fail for
Patterns == {"none", "all", "first", "last"}
Failing(batch, pattern) ==
    IF pattern = "none" THEN {}
    ELSE IF pattern = "all" THEN {batch[k].id : k \in 1..Len(batch)}
    ELSE IF pattern = "first" THEN {batch[1].id}
    ELSE {batch[Len(batch)].id}

\* lines 154-165: the enhanced batch, in the order of the batch
EnhancedBatch_DroppingFailed(batch, failing) ==
    SelectSeq([k \in 1..Len(batch) |->
                  enhanceMerchantDataWithExternalSources(batch[k], FALSE)],
              LAMBDA m : m.id \notin failing)

EnhancedBatch(batch, failing) ==
    [k \in 1..Len(batch) |->
        enhanceMerchantDataWithExternalSources(batch[k], batch[k].id \in failing)]

Rejected == [pc |-> "idle", outcome |-> "rejected"]

\* DataManager.saveMerchantsToCache called on its own
SaveMerchantsToCache(n, full) ==
    /\ localStorage' = Saved([k \in 1..n |-> enhanceMerchantData(Location(k))],
                             Undefined, full)
    /\ dataCall' = [op |-> "saveMerchantsToCache", merchants |-> n, full |-> full, at |-> now]
    /\ UNCHANGED refresh
    /\ UNCHANGED <<service, matcher, now, halalCertifier, proxy>>

\* lines 267-276
clearCache ==
    /\ localStorage' = [k \in StorageKeys |-> Null]
    /\ dataCall' = [op |-> "clearCache", at |-> now]
    /\ UNCHANGED refresh
    /\ UNCHANGED <<service, matcher, now, halalCertifier, proxy>>

\* lines 132-137: the call, up to the await of fetch
RefreshAllData(withCallback) ==
    /\ refresh.pc = "idle"
    /\ refresh' = [pc |-> "fetch", progressCallback |-> withCallback]
    /\ UNCHANGED localStorage
    /\ UNCHANGED <<service, matcher, now, halalCertifier, proxy>>
    /\ UNCHANGED dataCall

\* fetch rejects: the catch of lines 183-186 rethrows
RefreshFetchRejects ==
    /\ refresh.pc = "fetch"
    /\ refresh' = Rejected
    /\ UNCHANGED localStorage
    /\ UNCHANGED <<service, matcher, now, halalCertifier, proxy>>
    /\ UNCHANGED dataCall

RefreshFetchNotOk_Clearing ==
    /\ refresh.pc = "fetch"
    /\ refresh' = Rejected
    /\ localStorage' = [k \in StorageKeys |-> Null]
    /\ dataCall' = [op |-> "clearCache", at |-> now]
    /\ UNCHANGED <<service, matcher, now, halalCertifier, proxy>>

\* lines 138-140: a response that is not ok
RefreshFetchNotOk ==
    /\ refresh.pc = "fetch"
    /\ refresh' = Rejected
    /\ UNCHANGED localStorage
    /\ UNCHANGED <<service, matcher, now, halalCertifier, proxy>>
    /\ UNCHANGED dataCall

\* lines 138-142: an ok response, up to the await of response.json()
RefreshFetchOk ==
    /\ refresh.pc = "fetch"
    /\ refresh' = [refresh EXCEPT !.pc = "json"]
    /\ UNCHANGED localStorage
    /\ UNCHANGED <<service, matcher, now, halalCertifier, proxy>>
    /\ UNCHANGED dataCall

RefreshJsonRejects ==
    /\ refresh.pc = "json"
    /\ refresh' = Rejected
    /\ UNCHANGED localStorage
    /\ UNCHANGED <<service, matcher, now, halalCertifier, proxy>>
    /\ UNCHANGED dataCall

\* lines 179-182: the save and the return
Finish(locations, enhancedMerchants, failedIds, progress) ==
    [pc |-> "idle", outcome |-> "returned", locations |-> locations,
     enhancedMerchants |-> enhancedMerchants, failed |-> failedIds,
     progress |-> progress, progressCallback |-> refresh.progressCallback]

\* lines 142-154: the body arrived; with no location the loop is skipped and
\* the call saves and returns, else it awaits the first batch
RefreshJsonResolves(n, full) ==
    /\ refresh.pc = "json"
    /\ IF n = 0
       THEN /\ localStorage' = Saved(<<>>, Undefined, full)
            /\ refresh' = Finish(<<>>, <<>>, {}, <<>>)
            /\ dataCall' = [op |-> "saveMerchantsToCache", merchants |-> 0, full |-> full, at |-> now]
       ELSE /\ refresh' = [pc |-> "batch", locations |-> Locations(n), i |-> 0,
                           enhancedMerchants |-> <<>>, failed |-> {},
                           progress |-> <<>>,
                           progressCallback |-> refresh.progressCallback]
            /\ UNCHANGED <<localStorage, dataCall>>
    /\ UNCHANGED <<service, matcher, now, halalCertifier, proxy>>

\* lines 154-175: Promise.all of the batch resolved; push, report progress,
\* up to the await of the 300 ms timer
BatchResolves(pattern) ==
    /\ refresh.pc = "batch"
    /\ refresh' =
         Let(slice(refresh.locations, refresh.i, refresh.i + batchSize), LAMBDA batch :
         Let(refresh.enhancedMerchants \o EnhancedBatch(batch, Failing(batch, pattern)),
             LAMBDA all :
             [refresh EXCEPT
                 !.pc = "wait",
                 !.enhancedMerchants = all,
                 !.failed = @ \cup Failing(batch, pattern),
                 !.progress = IF refresh.progressCallback
                              THEN Append(@, <<Len(all), Len(refresh.locations)>>)
                              ELSE @]))
    /\ UNCHANGED localStorage
    /\ UNCHANGED <<service, matcher, now, halalCertifier, proxy>>
    /\ UNCHANGED dataCall

\* lines 175, 149, 179-182: the timer fired; the next batch, or the save and
\* the return
WaitElapses(full) ==
    /\ refresh.pc = "wait"
    /\ IF refresh.i + batchSize < Len(refresh.locations)
       THEN /\ refresh' = [refresh EXCEPT !.pc = "batch", !.i = @ + batchSize]
            /\ UNCHANGED <<localStorage, dataCall>>
       ELSE /\ localStorage' = Saved(refresh.enhancedMerchants, Undefined, full)
            /\ refresh' = Finish(refresh.locations, refresh.enhancedMerchants,
                                 refresh.failed, refresh.progress)
            /\ dataCall' = [op |-> "saveMerchantsToCache", merchants |-> Len(refresh.enhancedMerchants), full |-> full, at |-> now]
    /\ UNCHANGED <<service, matcher, now, halalCertifier, proxy>>

\* the cache on its own: saves, clears and the passing of time
NextData ==
    \/ Tick
    \/ \E n \in {0, 1}, full \in BOOLEAN : SaveMerchantsToCache(n, full)
    \/ clearCache

SpecData == Init /\ [][NextData]_vars

\* refreshAllData, with saves and clears by other callers in between
NextRefresh ==
    \/ \E n \in {0, 1}, full \in BOOLEAN : SaveMerchantsToCache(n, full)
    \/ clearCache
    \/ \E cb \in BOOLEAN : RefreshAllData(cb)
    \/ RefreshFetchRejects
    \/ RefreshFetchNotOk
    \/ RefreshFetchOk
    \/ RefreshJsonRejects
    \/ \E n \in Totals, full \in BOOLEAN : RefreshJsonResolves(n, full)
    \/ \E pattern \in Patterns : BatchResolves(pattern)
    \/ \E full \in BOOLEAN : WaitElapses(full)

SpecRefresh == Init /\ [][NextRefresh]_vars

\* C26: hasValidCachedData is true exactly when a timestamp and a version
\* are stored, the version is DATA_VERSION and the timestamp is less than 24
\* hours old; it is true right after saveMerchantsToCache returned with the
\* storage accepting writes, false after clearCache for as long as nothing is
\* saved, and needsRefresh is its negation.
C26_CacheLifecycle ==
    /\ hasValidCachedData <=>
          /\ localStorage[LAST_UPDATE_KEY] # Null
          /\ localStorage[VERSION_KEY] = String(DATA_VERSION)
          /\ now - localStorage[LAST_UPDATE_KEY].time < 24 * Hour
    /\ needsRefresh <=> ~hasValidCachedData
    /\ (dataCall.op = "saveMerchantsToCache" /\ ~dataCall.full /\ dataCall.at = now)
          => hasValidCachedData
    /\ dataCall.op = "clearCache" => ~hasValidCachedData

RefreshReturned == refresh.pc = "idle" /\ refresh # Idle /\ refresh.outcome = "returned"

\* C27: refreshAllData returns one enhanced merchant per CDC location, in the
\* order of the list, a merchant the external services failed for with the
\* basic enhancement; a progress callback is called once per batch of 25,
\* with a processed count that grows strictly and ends at the total.
C27_OneMerchantPerLocation ==
    RefreshReturned =>
        Let(Len(refresh.locations), LAMBDA total :
            /\ Len(refresh.enhancedMerchants) = total
            /\ \A k \in 1..total :
                  /\ refresh.enhancedMerchants[k].id = refresh.locations[k].id
                  /\ refresh.enhancedMerchants[k].name = refresh.locations[k].name
                  /\ refresh.locations[k].id \in refresh.failed =>
                        refresh.enhancedMerchants[k] =
                            enhanceMerchantData(refresh.locations[k])
            /\ ~refresh.progressCallback => refresh.progress = <<>>
            /\ refresh.progressCallback =>
                  /\ Len(refresh.progress) = (total + batchSize - 1) \div batchSize
                  /\ \A j \in 1..Len(refresh.progress) : refresh.progress[j][2] = total
                  /\ \A j \in 1..(Len(refresh.progress) - 1) :
                        refresh.progress[j][1] < refresh.progress[j + 1][1]
                  /\ total > 0 => refresh.progress[Len(refresh.progress)][1] = total)

\* three batches, the last one short, with merchants the external services
\* failed for and merchants they answered for
C27_Witness ==
    /\ RefreshReturned
    /\ Len(refresh.locations) > 2 * batchSize
    /\ Len(refresh.enhancedMerchants) = Len(refresh.locations)
    /\ refresh.progressCallback
    /\ Len(refresh.progress) = 3
    /\ refresh.failed # {}
    /\ \E k \in 1..Len(refresh.locations) : refresh.locations[k].id \notin refresh.failed

\* C28: a step of refreshAllData writes localStorage only when it returns,
\* after every batch was processed; a fetch that fails or answers with a
\* status that is not ok makes the call reject and leaves the cached
\* merchants, timestamp and version as they were.
C28_CacheWrittenOnlyAtTheEnd ==
    [][/\ (refresh' # refresh /\ localStorage' # localStorage) =>
              /\ refresh.pc \in {"json", "wait"}
              /\ refresh'.pc = "idle"
              /\ refresh'.outcome = "returned"
              /\ Len(refresh'.enhancedMerchants) = Len(refresh'.locations)
       /\ (refresh.pc = "fetch" /\ refresh' # refresh /\ refresh'.pc # "json") =>
              /\ refresh' = Rejected
              /\ localStorage' = localStorage
       /\ (refresh # Rejected /\ refresh' = Rejected) => localStorage' = localStorage
      ]_vars

\* the call rejected, the cache saved before it still in place
C28_Witness ==
    /\ refresh = Rejected
    /\ localStorage[VERSION_KEY] = String(DATA_VERSION)
    /\ localStorage[LAST_UPDATE_KEY] # Null
    /\ localStorage[STORAGE_KEY] # Null

(***************************************************************************)
(* fetchWithProxy                                                          *)
(***************************************************************************)
\* the sources, in the order of the nested try blocks
Sources == <<"direct", "allorigins", "cors-anywhere", "jsonp">>

\* lines 68-74
ApiUnavailable ==
    [kind |-> "object", found |-> 0, totalNumPages |-> 0, pageNum |-> 1,
     results |-> <<>>, error |-> "API_UNAVAILABLE"]

\* what a source can answer: search results, JSON null, and for the
\* allorigins service an object that carries the answer as text in contents
Payloads ==
    {[kind |-> "object", found |-> 1, results |-> <<"m1">>],
     [kind |-> "object", found |-> 0, results |-> <<>>],
     JsonNull}
Text(value) == [kind |-> "text", value |-> value]
NoJsonText == [kind |-> "text", value |-> Exception]
Wrapped(text) == [kind |-> "wrapped", contents |-> text]
Bodies ==
    Payloads \cup {Wrapped(Text(p)) : p \in Payloads} \cup {Wrapped(NoJsonText)}

\* JSON.parse of proxyData.contents (line 24): it throws for text that is no
\* JSON and for a body without contents
ParseContents(body) ==
    IF body.kind # "wrapped" THEN Exception
    ELSE body.contents.value

\* lines 9-11, 23-26, 39-41, 54-56: the data a source's body gives
DataOf(source, body) ==
    IF source = "allorigins" THEN ParseContents(body) ELSE body

NextSource_Skipping(k) == IF k = 2 THEN 4 ELSE k + 1

NextSource(k) == k + 1

\* the call
FetchWithProxy ==
    /\ proxy.pc = "idle"
    /\ proxy' = [pc |-> "fetch", k |-> 1, contacted |-> <<Sources[1]>>,
                 failures |-> <<>>]
    /\ UNCHANGED <<service, matcher, now, halalCertifier, dataManager>>

\* the catch block of the source that failed: the fetch of the next source,
\* or after the last one the return of lines 68-74
ProxyFailed(reason) ==
    IF proxy.k < Len(Sources)
    THEN [pc |-> "fetch", k |-> NextSource(proxy.k),
          contacted |-> Append(proxy.contacted, Sources[NextSource(proxy.k)]),
          failures |-> Append(proxy.failures, reason)]
    ELSE [pc |-> "idle", outcome |-> "returned", data |-> ApiUnavailable,
          contacted |-> proxy.contacted,
          failures |-> Append(proxy.failures, reason),
          from |-> "none", body |-> Null]

\* lines 7, 21, 37, 52: the fetch rejects
ProxyFetchRejects ==
    /\ proxy.pc = "fetch"
    /\ proxy' = ProxyFailed("rejected")
    /\ UNCHANGED <<service, matcher, now, halalCertifier, dataManager>>

\* lines 13, 28, 43, 58: a response that is not ok
ProxyFetchNotOk ==
    /\ proxy.pc = "fetch"
    /\ proxy' = ProxyFailed("status")
    /\ UNCHANGED <<service, matcher, now, halalCertifier, dataManager>>

\* lines 8, 22, 38, 53: an ok response, up to the await of its json()
ProxyFetchOk ==
    /\ proxy.pc = "fetch"
    /\ proxy' = [proxy EXCEPT !.pc = "json"]
    /\ UNCHANGED <<service, matcher, now, halalCertifier, dataManager>>

\* the body is no JSON
ProxyJsonRejects ==
    /\ proxy.pc = "json"
    /\ proxy' = ProxyFailed("body")
    /\ UNCHANGED <<service, matcher, now, halalCertifier, dataManager>>

\* the body arrived: the return of its data, or for allorigins the failure
\* of JSON.parse
ProxyJsonResolves(body) ==
    /\ proxy.pc = "json"
    /\ proxy' = IF DataOf(Sources[proxy.k], body) = Exception
                THEN ProxyFailed("contents")
                ELSE [pc |-> "idle", outcome |-> "returned",
                      data |-> DataOf(Sources[proxy.k], body),
                      contacted |-> proxy.contacted,
                      failures |-> proxy.failures,
                      from |-> Sources[proxy.k], body |-> body]
    /\ UNCHANGED <<service, matcher, now, halalCertifier, dataManager>>

NextProxy ==
    \/ FetchWithProxy
    \/ ProxyFetchRejects
    \/ ProxyFetchNotOk
    \/ ProxyFetchOk
    \/ ProxyJsonRejects
    \/ \E body \in Bodies : ProxyJsonResolves(body)

SpecProxy == Init /\ [][NextProxy]_vars

ProxyReturned == proxy.pc = "idle" /\ proxy # Idle

\* C29: fetchWithProxy always returns; it contacts direct, allorigins,
\* cors-anywhere, jsonp in that order, each only after all before it failed,
\* returns the data of the first one that succeeds and contacts none after
\* it, and returns the empty result with error API_UNAVAILABLE exactly when
\* all four failed.
C29_FirstSourceThatSucceeds ==
    /\ proxy # Idle =>
          /\ proxy.contacted = SubSeq(Sources, 1, Len(proxy.contacted))
          /\ Len(proxy.contacted) \in 1..Len(Sources)
    /\ (proxy # Idle /\ proxy.pc # "idle") =>
          Len(proxy.failures) = Len(proxy.contacted) - 1
    /\ ProxyReturned =>
          /\ proxy.outcome = "returned"
          /\ (proxy.data = ApiUnavailable) <=> (Len(proxy.failures) = Len(Sources))
          /\ Len(proxy.failures) = Len(Sources) => Len(proxy.contacted) = Len(Sources)
          /\ Len(proxy.failures) < Len(Sources) =>
                /\ Len(proxy.contacted) = Len(proxy.failures) + 1
                /\ proxy.from = Sources[Len(proxy.contacted)]
                /\ proxy.data = IF proxy.from = "allorigins"
                                THEN proxy.body.contents.value
                                ELSE proxy.body

\* the third source answered after the first two failed; the fourth was not
\* contacted
C29_Witness ==
    /\ ProxyReturned
    /\ proxy.contacted = <<"direct", "allorigins", "cors-anywhere">>
    /\ Len(proxy.failures) = 2
    /\ proxy.from = "cors-anywhere"
    /\ proxy.data = [kind |-> "object", found |-> 1, results |-> <<"m1">>]

(***************************************************************************)
(* merchantUtils: isOpen                                                   *)
(***************************************************************************)
DigitSeq == <<"0","1","2","3","4","5","6","7","8","9">>
DigitValue(ch) == (CHOOSE i \in 1..10 : DigitSeq[i] = ch) - 1
\* Number of a two digit group of the match
TwoDigits(s, i) == 10 * DigitValue(s[i]) + DigitValue(s[i + 1])

\* /(\d{2}):(\d{2})-(\d{2}):(\d{2})/ matches s at position i
HoursAt(s, i) ==
    /\ i + 10 <= Len(s)
    /\ \A j \in {0, 1, 3, 4, 6, 7, 9, 10} : s[i + j] \in Digit
    /\ s[i + 2] = ":" /\ s[i + 5] = "-" /\ s[i + 8] = ":"

\* String.match: the position of the leftmost match, 0 for null
timeMatch(s) ==
    IF \E i \in 1..Len(s) : HoursAt(s, i)
    THEN CHOOSE i \in 1..Len(s) :
             HoursAt(s, i) /\ \A j \in 1..(i - 1) : ~HoursAt(s, j)
    ELSE 0

\* lines 53-55, the hours of dinner and supper places
DinnerHours(currentHour) == currentHour >= 17 /\ currentHour <= 2

\* lines 42-73: the estimate from the type and the name
FallbackHours(merchant, currentHour) ==
    Let(toLowerCase(merchant.name), LAMBDA name :
        IF merchant.type = "HAWKER_HEARTLAND_MERCHANT"
        THEN IF \/ includes(name, <<"c","o","f","f","e","e">>)
                \/ includes(name, <<"k","o","p","i">>)
                \/ includes(name, <<"b","r","e","a","k","f","a","s","t">>)
             THEN currentHour >= 6 /\ currentHour <= 14
             ELSE IF \/ includes(name, <<"z","i"," ","c","h","a","r">>)
                     \/ includes(name, <<"s","t","e","a","m","b","o","a","t">>)
                     \/ includes(name, <<"b","b","q">>)
             THEN DinnerHours(currentHour)
             ELSE IF \/ includes(name, <<"m","a","s","s","a","g","e">>)
                     \/ includes(name, <<"w","e","l","l","n","e","s","s">>)
                     \/ includes(name, <<"s","p","a">>)
                     \/ includes(name, <<"r","e","f","l","e","x","o","l","o","g","y">>)
             THEN currentHour >= 10 /\ currentHour <= 22
             ELSE currentHour >= 8 /\ currentHour <= 20
        ELSE IF merchant.type = "SUPERMARKET"
        THEN currentHour >= 7 /\ currentHour <= 23
        ELSE currentHour >= 8 /\ currentHour <= 20)

\* lines 11-73; dayHours is merchant.operatingHours[currentDay], undefined
\* also when the merchant has no operatingHours
isOpen(merchant, currentHour, currentMinute) ==
    Let(currentHour * 100 + currentMinute, LAMBDA currentTime :
        IF merchant.dayHours.kind = "string" /\ merchant.dayHours.value # <<>>
        THEN Let(merchant.dayHours.value, LAMBDA dayHours :
             Let(timeMatch(dayHours), LAMBDA at :
                 IF dayHours = <<"C","l","o","s","e","d">> THEN FALSE
                 ELSE IF at > 0
                 THEN Let(TwoDigits(dayHours, at) * 100 + TwoDigits(dayHours, at + 3),
                          LAMBDA openTime :
                      Let(TwoDigits(dayHours, at + 6) * 100 + TwoDigits(dayHours, at + 9),
                          LAMBDA closeTime :
                          IF closeTime < openTime
                          THEN currentTime >= openTime \/ currentTime <= closeTime
                          ELSE currentTime >= openTime /\ currentTime <= closeTime))
                 ELSE FallbackHours(merchant, currentHour)))
        ELSE FallbackHours(merchant, currentHour))

\* the merchants and the times of day isOpen is asked about
OpenNames ==
    {<<"A","h"," ","S","e","n","g"," ","Z","i"," ","C","h","a","r">>,
     <<"B","B","Q"," ","S","t","e","a","m","b","o","a","t">>,
     <<"K","o","p","i"," ","B","B","Q">>,
     <<"B","r","e","a","k","f","a","s","t"," ","Z","i"," ","C","h","a","r">>,
     <<"F","o","o","t"," ","S","p","a">>,
     <<"M","i","x","e","d"," ","R","i","c","e">>}
OpenTypes == {"HAWKER_HEARTLAND_MERCHANT", "SUPERMARKET"}
OpenDayHours ==
    {Undefined, String(<<>>), String(<<"C","l","o","s","e","d">>),
     String(<<"0","9",":","0","0","-","2","1",":","0","0">>), String(<<"2","2",":","0","0","-","0","2",":","0","0">>),
     String(<<"9","a","m","-","9","p","m">>)}
Hours == 0..23
Minutes == {0, 30}

OpenInputs ==
    {[kind |-> "isOpen",
      merchant |-> [name |-> n, type |-> t, dayHours |-> d],
      currentHour |-> h, currentMinute |-> m] :
        n \in OpenNames, t \in OpenTypes, d \in OpenDayHours,
        h \in Hours, m \in Minutes}

InitOpen ==
    /\ InitService
    /\ InitApp
    /\ input \in OpenInputs
    /\ output = NoOutput

IsOpen ==
    /\ output = NoOutput
    /\ output' = [kind |-> "isOpen",
                  open |-> isOpen(input.merchant, input.currentHour,
                                  input.currentMinute)]
    /\ UNCHANGED input
    /\ UNCHANGED <<service, app>>

NextOpen == IsOpen

SpecOpen == InitOpen /\ [][NextOpen]_vars

\* the name is one of a dinner or supper place and of no coffee shop
DinnerPlace(name) ==
    /\ \/ includes(toLowerCase(name), <<"z","i"," ","c","h","a","r">>)
       \/ includes(toLowerCase(name), <<"s","t","e","a","m","b","o","a","t">>)
       \/ includes(toLowerCase(name), <<"b","b","q">>)
    /\ ~includes(toLowerCase(name), <<"c","o","f","f","e","e">>)
    /\ ~includes(toLowerCase(name), <<"k","o","p","i">>)
    /\ ~includes(toLowerCase(name), <<"b","r","e","a","k","f","a","s","t">>)

\* C30: for a HAWKER_HEARTLAND_MERCHANT without operating hours for the day
\* whose name is one of a dinner place, isOpen is true exactly from 5 PM to
\* 2 AM: for the hours 17..23 and 0..2.
C30_DinnerPlacesOpenOvernight ==
    (/\ output # NoOutput
     /\ input.merchant.type = "HAWKER_HEARTLAND_MERCHANT"
     /\ input.merchant.dayHours = Undefined
     /\ DinnerPlace(input.merchant.name))
        => (output.open <=> input.currentHour \in (17..23) \cup (0..2))

====
